---- MODULE Spec2Model ----
(***************************************************************************)
(* AdReader: the scan orchestrator (background script), the page-side      *)
(* component (content script) and the AI endpoint's replies.               *)
(*                                                                         *)
(* The repository holds three versions of the orchestrator, one per        *)
(* discovery strategy (skeleton, heuristic, whole page); the deployed one  *)
(* is fixed in the initial state.  Every await of the orchestrator is a    *)
(* step of its own.                                                        *)
(***************************************************************************)
EXTENDS Integers, Sequences, FiniteSets, TLC

VARIABLES
    strategy,     \* which orchestrator is deployed
    apiKey,       \* chrome.storage.sync 'apiKey' ("" when not stored)
    doc,          \* the page: the element children of body, in document order
    listeners,    \* onMessage listeners registered on the page (one per injection)
    overlays,     \* the .ad-reader-overlay elements, appended to body, in order
    renderSeq,    \* number of createOverlays messages the page has handled
    scanNo,       \* number of scans started
    pc,           \* position of the scan in flight
    tabId,        \* request.tabId of the scan in flight (0 when missing)
    adSelectors,  \* skeleton strategy: what findAdSelectorsFromSkeleton returned
    cands,        \* adSnippets / adCandidates: the list of {selector, html}
    pending,      \* indices of the analysis promises not settled yet
    replies,      \* the AI endpoint's reply to each confirmation request
    results,      \* what each analyzeAdSnippet promise resolved to
    msg,          \* the data of the createOverlays message in flight
    reply,        \* what sendResponse gave the caller
    nResponses,   \* number of sendResponse calls the handler has made
    optionsOpened,\* chrome.runtime.openOptionsPage() was called by this scan
    nDiscovery,   \* discovery-stage requests this scan sent to the AI endpoint
    nConfirm,     \* confirmation requests this scan sent to the AI endpoint
    thrown,       \* the exception this scan's try block raised, if any
    discoveryBad, \* the discovery request failed or its reply lacks a selector list
    lastRender,   \* the last createOverlays handling: its scan, the number of
                  \* overlays it found on the page, the count it replied
    script,       \* which content script file the page runs
    event,        \* the last event the page or the navigation listener handled
    clearMsgs,    \* clearOverlays messages sent and not yet delivered
    target,       \* the element getUniqueSelector was last called on
    selector,     \* the selector it returned
    found,        \* what querying the document with that selector gave
    suspended,    \* a second scanForAds handler, waiting at its await
    popup,        \* the popup: its scan button, its status line, its click handlers
    options       \* the options page: its input, its status line, the stored key

vars == <<strategy, apiKey, doc, listeners, overlays, renderSeq, scanNo, pc, tabId,
          adSelectors, cands, pending, replies, results, msg, reply, nResponses, optionsOpened,
          nDiscovery, nConfirm, thrown,
          discoveryBad, lastRender, script, event, clearMsgs, target, selector, found,
          suspended, popup, options>>

(***************************************************************************)
(* Bounds                                                                  *)
(***************************************************************************)
MaxScans == 2
MaxAds == 2

Strategies == {"skeleton", "heuristic", "wholepage"}

Range(s) == {s[i] : i \in DOMAIN s}

SeqsUpTo(S, n) == UNION {[1..k -> S] : k \in 0..n}

(***************************************************************************)
(* The page.  An element of the document is a record: its id ("" when it   *)
(* has none), whether one of the scan's detectors nominates it, whether    *)
(* its bounding box is above the size threshold, and whether it is laid    *)
(* out (offsetParent is not null).  All are div children of body.          *)
(***************************************************************************)
Elem(id, nominated, big, visible) ==
    [id |-> id, nominated |-> nominated, big |-> big, visible |-> visible]

DocNoAds == <<Elem("main", FALSE, TRUE, TRUE), Elem("px", TRUE, FALSE, TRUE)>>
DocBanner == <<Elem("top-banner", TRUE, TRUE, TRUE)>>
DocTwoAds == <<Elem("top-banner", TRUE, TRUE, TRUE), Elem("", TRUE, TRUE, TRUE)>>

Docs == {DocNoAds, DocBanner, DocTwoAds}

(* Selector strings: '#id', 'body > div:nth-child(k)', or a string that is  *)
(* no valid selector, on which querySelector throws.                       *)
IdSel(id) == [kind |-> "id", id |-> id, index |-> 0]
PathSel(k) == [kind |-> "path", id |-> "", index |-> k]
InvalidSel == [kind |-> "invalid", id |-> "", index |-> 0]

(* The selectors the AI endpoint may name in a reply. *)
AISelectors == {IdSel("top-banner"), IdSel("nope"), PathSel(2), InvalidSel}

\* document.querySelector(sel) throws a SyntaxError
querySelectorThrows(sel) == sel.kind = "invalid"

\* document.querySelector(sel): the position among body's children of the
\* first match, 0 for null.  Overlays are appended to body after the document's
\* own elements and carry no id.
querySelector(sel, d, ovs) ==
    IF sel.kind = "id"
    THEN IF \E i \in 1..Len(d) : d[i].id = sel.id
         THEN CHOOSE i \in 1..Len(d) :
                  /\ d[i].id = sel.id
                  /\ \A j \in 1..(i - 1) : d[j].id # sel.id
         ELSE 0
    ELSE IF sel.kind = "path" /\ sel.index \in 1..(Len(d) + Len(ovs))
         THEN sel.index
         ELSE 0

\* getBoundingClientRect() of body's n-th child is above the threshold; an
\* overlay has the box of the element it covers.
IsBig(n, d, ovs) == IF n <= Len(d) THEN d[n].big ELSE ovs[n - Len(d)].big

\* getUniqueSelector(el) for body's n-th child
getUniqueSelector(n, d) ==
    IF n <= Len(d) /\ d[n].id # "" THEN IdSel(d[n].id) ELSE PathSel(n)

\* The candidate {selector, html} of body's n-th child; html is the
\* element's outerHTML, named here by the element's position.
Candidate(sel, n) == [selector |-> sel, html |-> n]

\* addCandidate's filter: size threshold and offsetParent !== null.  An
\* overlay is absolutely positioned in body, so its offsetParent is body.
PassesFilter(n, d, ovs) ==
    /\ IsBig(n, d, ovs)
    /\ (n <= Len(d) => d[n].visible)

\* Some detector nominates body's n-th child.  An overlay's class,
\* 'ad-reader-overlay', matches the keyword selector [class*="ad"].
Nominated(n, d) == IF n <= Len(d) THEN d[n].nominated ELSE TRUE

RECURSIVE addCandidates(_, _, _, _)
addCandidates(n, acc, d, ovs) ==
    IF n > Len(d) + Len(ovs) THEN acc
    ELSE LET sel == getUniqueSelector(n, d)
             take == /\ Nominated(n, d)
                     /\ PassesFilter(n, d, ovs)
                     /\ \A k \in 1..Len(acc) : acc[k].selector # sel
         IN addCandidates(n + 1,
                          IF take THEN Append(acc, Candidate(sel, n)) ELSE acc,
                          d, ovs)

\* Mutant: an element reported by the scan before is not reported again
findPotentialAdsOnlyNew(d, ovs) ==
    SelectSeq(addCandidates(1, <<>>, d, ovs),
              LAMBDA c : \A k \in 1..Len(cands) : cands[k].selector # c.selector)

\* findPotentialAds(): the candidates in document order, keyed by selector
findPotentialAds(d, ovs) == addCandidates(1, <<>>, d, ovs)

\* Mutant: the try/catch is around the map, so the first selector that throws
\* ends the mapping
RECURSIVE getAdSnippetsAbortOnThrow(_, _, _)
getAdSnippetsAbortOnThrow(sels, d, ovs) ==
    IF sels = <<>> THEN <<>>
    ELSE IF querySelectorThrows(Head(sels)) THEN <<>>
    ELSE LET n == querySelector(Head(sels), d, ovs)
             rest == getAdSnippetsAbortOnThrow(Tail(sels), d, ovs)
         IN IF n = 0 THEN rest ELSE <<Candidate(Head(sels), n)>> \o rest

\* getAdSnippets: one {selector, html} per selector that resolves; an
\* invalid or unmatched selector maps to null and is filtered out.
RECURSIVE getAdSnippets(_, _, _)
getAdSnippets(sels, d, ovs) ==
    IF sels = <<>> THEN <<>>
    ELSE LET sel == Head(sels)
             n == IF querySelectorThrows(sel) THEN 0 ELSE querySelector(sel, d, ovs)
             rest == getAdSnippets(Tail(sels), d, ovs)
         IN IF n = 0 THEN rest ELSE <<Candidate(sel, n)>> \o rest

(***************************************************************************)
(* Overlays.  An overlay records the body child it covers, its description *)
(* text, the createOverlays message that made it, the position in that     *)
(* message's list of the ad it was made for, and its box size.             *)
(***************************************************************************)
Ad(sel, desc) == [selector |-> sel, description |-> desc]

\* Mutant: the clear is left out
clearNothing(ovs) == ovs

\* Mutant: only the first overlay found is removed
clearFirstOverlay(ovs) == IF ovs = <<>> THEN ovs ELSE Tail(ovs)

\* clearExistingOverlays(): every .ad-reader-overlay element is removed
clearExistingOverlays(ovs) == <<>>

\* The versions of the content script in the repository
Scripts == {"content.js", "part_003", "part_004", "part_005", "part_006"}

\* The children createOverlayForElement appends to an overlay, per version:
\* the first version has no close button
overlayParts(v) ==
    IF v = "content.js"
    THEN {"speaker", "description"}
    ELSE {"speaker", "description", "close"}

\* Mutant: the close button's click handler clears every overlay
removeAllOverlays(ovs, i) == <<>>

\* The close button's click handler of the i-th overlay: overlay.remove()
removeOverlay(ovs, i) ==
    [k \in 1..(Len(ovs) - 1) |-> IF k < i THEN ovs[k] ELSE ovs[k + 1]]

\* createOverlayForElement(element, description): appended to body
createOverlayForElement(n, desc, j, d, ovs, rid) ==
    Append(ovs, [target |-> n, description |-> desc, render |-> rid, ad |-> j,
                 big |-> IsBig(n, d, ovs)])

\* Mutant: overlayCount++ after the if, so an unmatched selector is counted
renderAdCountsUnmatched(st, ad, j, d, rid) ==
    IF querySelectorThrows(ad.selector) THEN st
    ELSE LET n == querySelector(ad.selector, d, st.ovs)
         IN [ovs |-> IF n = 0 THEN st.ovs
                     ELSE createOverlayForElement(n, ad.description, j, d,
                                                  st.ovs, rid),
             count |-> st.count + 1]

\* The body of the forEach of createOverlays for the j-th ad, on the loop's
\* state st = [ovs, count]: try { query; if found, overlay and count }
\* catch { skip }
renderAd(st, ad, j, d, rid) ==
    IF querySelectorThrows(ad.selector) THEN st
    ELSE LET n == querySelector(ad.selector, d, st.ovs)
         IN IF n = 0 THEN st
            ELSE [ovs |-> createOverlayForElement(n, ad.description, j, d,
                                                  st.ovs, rid),
                  count |-> st.count + 1]

\* Mutant: the try/catch is around the loop, so the first selector that
\* throws ends the rendering
RECURSIVE forEachAdAbortOnThrow(_, _, _, _, _)
forEachAdAbortOnThrow(ads, j, st, d, rid) ==
    IF j > Len(ads) THEN st
    ELSE IF querySelectorThrows(ads[j].selector) THEN st
    ELSE forEachAdAbortOnThrow(ads, j + 1, renderAd(st, ads[j], j, d, rid), d, rid)

\* adData.ads.forEach(ad => ...), from the j-th ad on
RECURSIVE forEachAd(_, _, _, _, _)
forEachAd(ads, j, st, d, rid) ==
    IF j > Len(ads) THEN st
    ELSE forEachAd(ads, j + 1, renderAd(st, ads[j], j, d, rid), d, rid)

(* The data of a createOverlays message: null, an object without an "ads"  *)
(* list, an object whose "ads" is not a list, or {ads: [...]}.             *)
AdData(type, ads) == [type |-> type, ads |-> ads]
NoData == AdData("null", <<>>)

\* adData.ads.forEach is not a function: the listener throws after the clear
createOverlaysThrows(data) == data.type = "adsNotList"

\* Mutant: the handler renders without clearing first
createOverlaysKeeping(data, d, ovs, rid) ==
    LET kept == [ovs |-> ovs, count |-> 0]
    IN IF data.type = "ads" /\ Len(data.ads) > 0
       THEN forEachAd(data.ads, 1, kept, d, rid)
       ELSE kept

\* One listener handling createOverlays: the overlays left on the page and
\* the count passed to sendResponse.
createOverlays(data, d, ovs, rid) ==
    LET cleared == [ovs |-> clearExistingOverlays(ovs), count |-> 0]
    IN IF data.type = "ads" /\ Len(data.ads) > 0
       THEN forEachAd(data.ads, 1, cleared, d, rid)
       ELSE cleared

\* Mutant: only the first listener clears, every further one adds its
\* overlays to those on the page
RECURSIVE deliverAppending(_, _, _, _, _)
deliverAppending(k, data, d, ovs, rid) ==
    IF k = 0 THEN ovs
    ELSE IF k = 1 THEN createOverlays(data, d, ovs, rid).ovs
    ELSE deliverAppending(k - 1, data, d, ovs, rid)
             \o createOverlays(data, d, <<>>, rid).ovs

\* The message reaches every listener registered on the page, one after the
\* other; each returns the overlays it leaves.
RECURSIVE deliverCreateOverlays(_, _, _, _, _)
deliverCreateOverlays(k, data, d, ovs, rid) ==
    IF k = 0 THEN ovs
    ELSE deliverCreateOverlays(k - 1, data, d,
                               createOverlays(data, d, ovs, rid).ovs, rid)

(***************************************************************************)
(* The AI endpoint.  A reply is the outcome of the fetch: it rejects, it   *)
(* has a non-OK status, its body holds no candidates[0]...text, or it      *)
(* holds a text.  A text is a sequence of chunks: a "```json" fence, a     *)
(* "```" fence, the text of a JSON value, or prose that is no JSON.        *)
(***************************************************************************)
NoValue == [type |-> "none"]
FenceJson == [kind |-> "fenceJson", value |-> NoValue]
Fence == [kind |-> "fence", value |-> NoValue]
Json(v) == [kind |-> "json", value |-> v]
Prose == [kind |-> "prose", value |-> NoValue]

HttpReply(outcome, text) == [outcome |-> outcome, text |-> text]
Rejected == HttpReply("reject", <<>>)
NotOk == HttpReply("notOk", <<>>)
NoText == HttpReply("noText", <<>>)
Text(t) == HttpReply("text", t)
Fenced(v) == Text(<<FenceJson, Json(v), Fence>>)
Bare(v) == Text(<<Json(v)>>)

Failures == {Rejected, NotOk, NoText}

\* text.replace(/```json/g, '').replace(/```/g, '').trim()
stripFences(text) ==
    SelectSeq(SelectSeq(text, LAMBDA c : c.kind # "fenceJson"),
              LAMBDA c : c.kind # "fence")

\* JSON.parse(cleanedText) throws a SyntaxError unless the text is one JSON value
jsonParseThrows(cleaned) == ~(Len(cleaned) = 1 /\ cleaned[1].kind = "json")
jsonParse(cleaned) == cleaned[1].value

(* JSON values of the confirmation stage.  An object's isAd is true, false, *)
(* the string "yes" or absent; its description a string or absent; extra   *)
(* says the object has a key besides the two.                              *)
ClassObj(isAd, description, extra) ==
    [type |-> "object", isAd |-> isAd, description |-> description, extra |-> extra]
JNull == [type |-> "null", isAd |-> "absent", description |-> "absent", extra |-> FALSE]
JArray == [type |-> "array", isAd |-> "absent", description |-> "absent", extra |-> FALSE]
JNumber == [type |-> "number", isAd |-> "absent", description |-> "absent", extra |-> FALSE]
Unsettled == [type |-> "unsettled", isAd |-> "absent", description |-> "absent",
              extra |-> FALSE]

IsAdReply == ClassObj("true", "X", FALSE)
NotAdReply == ClassObj("false", "", FALSE)
\* {isAd: false, description: ""}
SafeDefault == ClassObj("false", "", FALSE)

\* A JSON object with exactly the keys isAd (boolean) and description (string)
WellFormed(v) ==
    /\ v.type = "object"
    /\ v.isAd \in {"true", "false"}
    /\ v.description # "absent"
    /\ ~v.extra

SnippetValues ==
    {IsAdReply, NotAdReply, JNull, JArray, JNumber,
     ClassObj("true", "X", TRUE), ClassObj("true", "absent", FALSE),
     ClassObj("yes", "X", FALSE), ClassObj("true", "", FALSE),
     ClassObj("false", "X", FALSE)}

SnippetReplies ==
    Failures \cup {Bare(v) : v \in SnippetValues}
             \cup {Fenced(IsAdReply), Text(<<Prose>>), Text(<<Prose, Json(IsAdReply)>>)}

\* The replies of the multi-scan specification: one of each outcome class
CoreSnippetReplies ==
    {Rejected, Bare(IsAdReply), Bare(NotAdReply), Fenced(IsAdReply), Bare(JNull)}

\* Mutant: the failure paths return nothing, so the promise resolves to no
\* object
analyzeAdSnippetNoDefault(r) ==
    IF r.outcome # "text" THEN JNull
    ELSE LET cleanedText == stripFences(r.text)
         IN IF jsonParseThrows(cleanedText) THEN JNull
            ELSE jsonParse(cleanedText)

\* analyzeAdSnippet(htmlSnippet, apiKey), on the endpoint's reply
analyzeAdSnippet(r) ==
    IF r.outcome # "text" THEN SafeDefault
    ELSE LET cleanedText == stripFences(r.text)
         IN IF jsonParseThrows(cleanedText) THEN SafeDefault
            ELSE jsonParse(cleanedText)

\* results[i].isAd throws a TypeError: results[i] is null
isAdThrows(v) == v.type = "null"
\* if (results[i].isAd)
isAdTruthy(v) == v.type = "object" /\ v.isAd \in {"true", "yes"}

\* Mutant: the results are taken in completion order, so result i is paired
\* with the candidate at the other end of the list
RECURSIVE confirmedAdsMispaired(_, _, _)
confirmedAdsMispaired(cs, res, i) ==
    IF i > Len(res) THEN <<>>
    ELSE IF isAdTruthy(res[i])
         THEN <<Ad(cs[Len(res) + 1 - i].selector, res[i].description)>>
                  \o confirmedAdsMispaired(cs, res, i + 1)
         ELSE confirmedAdsMispaired(cs, res, i + 1)

\* The loop that filters the results to confirmedAds
RECURSIVE confirmedAds(_, _, _)
confirmedAds(cs, res, i) ==
    IF i > Len(res) THEN <<>>
    ELSE IF isAdTruthy(res[i])
         THEN <<Ad(cs[i].selector, res[i].description)>> \o confirmedAds(cs, res, i + 1)
         ELSE confirmedAds(cs, res, i + 1)

\* The loop throws: some result is null
confirmThrows(res) == \E i \in 1..Len(res) : isAdThrows(res[i])

(* JSON values of the discovery stage: null, or an object whose            *)
(* "selectors" is a list of selector strings, absent, or a string.         *)
SelList(items) == [type |-> "list", items |-> items]
SelString == [type |-> "string", items |-> <<>>]
SelAbsent == [type |-> "absent", items |-> <<>>]
DiscObj(selectors) == [type |-> "object", selectors |-> selectors]
DiscNull == [type |-> "null", selectors |-> SelAbsent]

DiscoveryValues ==
    {DiscNull, DiscObj(SelAbsent), DiscObj(SelString)}
        \cup {DiscObj(SelList(l)) : l \in SeqsUpTo(AISelectors, MaxAds)}

DiscoveryReplies ==
    Failures \cup {Bare(v) : v \in DiscoveryValues}
             \cup {Fenced(DiscObj(SelList(<<IdSel("top-banner")>>))), Text(<<Prose>>)}

\* findAdSelectorsFromSkeleton(skeletonHtml, apiKey), on the endpoint's reply:
\* parsed.selectors || [] inside the try, [] on every other path
findAdSelectorsFromSkeleton(r) ==
    IF r.outcome # "text" THEN SelList(<<>>)
    ELSE LET cleanedText == stripFences(r.text)
         IN IF jsonParseThrows(cleanedText) THEN SelList(<<>>)
            ELSE LET parsed == jsonParse(cleanedText)
                 IN IF parsed.type = "null" THEN SelList(<<>>)
                    ELSE IF parsed.selectors.type = "absent" THEN SelList(<<>>)
                    ELSE parsed.selectors

\* The reply is a text that parses to an object whose "selectors" is a list of
\* selector strings
hasSelectorList(r) ==
    /\ r.outcome = "text"
    /\ ~jsonParseThrows(stripFences(r.text))
    /\ jsonParse(stripFences(r.text)).type = "object"
    /\ jsonParse(stripFences(r.text)).selectors.type = "list"

\* Mutant: the zero-selector short-circuit is left out
noSelectorsNever(a) == FALSE

\* !adSelectors || adSelectors.length === 0
noSelectors(a) == a.type = "list" /\ Len(a.items) = 0

(* JSON values of the whole-page analysis: any value is handed to the page *)
(* as the createOverlays data.                                             *)
PageValues ==
    {NoData, AdData("noAds", <<>>), AdData("adsNotList", <<>>)}
        \cup {AdData("ads", l) :
                 l \in SeqsUpTo({Ad(sel, "X") : sel \in AISelectors}, MaxAds)}

PageReplies ==
    Failures \cup {Bare(v) : v \in PageValues}
             \cup {Fenced(AdData("ads", <<Ad(IdSel("top-banner"), "X")>>)),
                   Text(<<Prose>>)}

\* analyzeHtmlWithGemini throws: fetch rejects, status not OK, no
\* candidates[0].content.parts[0], or JSON.parse fails
analyzeHtmlThrows(r) ==
    \/ r.outcome # "text"
    \/ jsonParseThrows(stripFences(r.text))

analyzeHtmlError(r) ==
    IF r.outcome = "reject" THEN "Failed to fetch"
    ELSE IF r.outcome = "notOk" THEN "API request failed with status 500: "
    ELSE IF r.outcome = "noText" THEN "Invalid response structure from Gemini API."
    ELSE "Unexpected token in JSON"

analyzeHtmlWithGemini(r) == jsonParse(stripFences(r.text))

(***************************************************************************)
(* The orchestrator: the scanForAds handler                                *)
(***************************************************************************)
Reply(status, count, message) ==
    [status |-> status, count |-> count, message |-> message]
NoReply == Reply("none", 0, "")
Success(count) == Reply("success", count, "")

ApiKeyMessage == "API key is not set. Please set it in the options."
NoTabMessage == "Could not get tab ID."
NoReceiverMessage == "Could not establish connection. Receiving end does not exist."
TypeErrorMessage == "Cannot read properties of undefined"

NotThrown == [raised |-> FALSE, message |-> ""]
NoRender == [scan |-> 0, before |-> 0, count |-> 0]

\* Mutant: the catch block sends error.message without the fallback text
catchReplyNoFallback(message) == Reply("error", 0, message)

\* The catch block's sendResponse
catchReply(message) ==
    Reply("error", 0, IF message # "" THEN message ELSE "An unknown error occurred.")

\* The zero-candidate and zero-confirmed short-circuits' sendResponse
zeroReply == Success(0)

\* The missing-credential sendResponse
noKeyReply == Reply("error", 0, ApiKeyMessage)

\* The content script file each orchestrator injects as 'content.js'
contentScriptOf(s) ==
    CASE s = "skeleton" -> "part_005"
      [] s = "heuristic" -> "part_006"
      [] OTHER -> "content.js"

NoEvent == [kind |-> "none", arg |-> 0]
NoSelector == [kind |-> "none", text |-> <<>>, steps |-> <<>>]
NoResult == [done |-> FALSE, throws |-> FALSE, matches |-> <<>>]

\* popup.html as loaded: the button enabled, the status line empty, no click
\* handler running
PopupLoaded ==
    [disabled |-> FALSE, status |-> [text |-> "", arg |-> 0],
     querying |-> 0, awaiting |-> 0, clicks |-> 0]

\* options.html as loaded, with nothing in chrome.storage.sync
OptionsLoaded ==
    [input |-> <<>>, status |-> "", stored |-> <<>>, saving |-> FALSE, timer |-> FALSE]

\* Nothing has happened on the page and no selector has been generated
AuxInit ==
    /\ event = NoEvent
    /\ clearMsgs = 0
    /\ target = <<>>
    /\ selector = NoSelector
    /\ found = NoResult
    /\ suspended = <<>>
    /\ popup = PopupLoaded
    /\ options = OptionsLoaded

auxVars == <<script, event, clearMsgs, target, selector, found, suspended, popup,
            options>>

Init ==
    /\ strategy \in Strategies
    /\ apiKey \in {"", "key"}
    /\ doc \in Docs
    /\ listeners = 0
    /\ overlays = <<>>
    /\ renderSeq = 0
    /\ scanNo = 0
    /\ pc = "idle"
    /\ tabId = 0
    /\ adSelectors = SelList(<<>>)
    /\ cands = <<>>
    /\ pending = {}
    /\ replies = <<>>
    /\ results = <<>>
    /\ msg = NoData
    /\ reply = NoReply
    /\ nResponses = 0
    /\ optionsOpened = FALSE
    /\ nDiscovery = 0
    /\ nConfirm = 0
    /\ thrown = NotThrown
    /\ discoveryBad = FALSE
    /\ lastRender = NoRender
    /\ script = contentScriptOf(strategy)
    /\ AuxInit

pageVars == <<doc, listeners, overlays, renderSeq, lastRender>>
fanVars == <<cands, pending, replies, results>>
countVars == <<nDiscovery, nConfirm>>

\* Mutant: the catch block logs the exception and sends no response
ThrowUnreported(message) ==
    /\ thrown' = [raised |-> TRUE, message |-> message]
    /\ pc' = "done"
    /\ UNCHANGED <<reply, nResponses>>

\* An exception reaches the catch block of the handler
Throw(message) ==
    /\ thrown' = [raised |-> TRUE, message |-> message]
    /\ reply' = catchReply(message)
    /\ nResponses' = nResponses + 1
    /\ pc' = "done"

\* Mutant: the return after sendResponse is missing and the handler goes on
\* to send createOverlays
RespondNoReturn(r) ==
    /\ reply' = r
    /\ nResponses' = nResponses + 1
    /\ pc' = "render"
    /\ UNCHANGED thrown

\* sendResponse on a path that ends the scan without an exception
Respond(r) ==
    /\ reply' = r
    /\ nResponses' = nResponses + 1
    /\ pc' = "done"
    /\ UNCHANGED thrown

\* The scan moves on to its next await
Goto(next) ==
    /\ pc' = next
    /\ UNCHANGED <<reply, nResponses, thrown>>

\* adCandidates.map(c => analyzeAdSnippet(c.html, apiKey)): one request per
\* candidate is sent, then the handler awaits Promise.all
FanOut(cs) ==
    /\ cands' = cs
    /\ pending' = 1..Len(cs)
    /\ replies' = [i \in 1..Len(cs) |-> NoText]
    /\ results' = [i \in 1..Len(cs) |-> Unsettled]
    /\ nConfirm' = nConfirm + Len(cs)
    /\ Goto("await")

\* A scanForAds message arrives: a new handler runs to its first await
BeginScan ==
    /\ scanNo' = scanNo + 1
    /\ \E t \in {0, 1} :
        /\ tabId' = t
        /\ IF strategy = "skeleton" /\ t = 0
           THEN Throw(NoTabMessage)
           ELSE /\ pc' = IF strategy = "wholepage" THEN "getKey" ELSE "inject"
                /\ thrown' = NotThrown
                /\ reply' = NoReply
                /\ UNCHANGED nResponses
    /\ adSelectors' = SelList(<<>>)
    /\ cands' = <<>>
    /\ pending' = {}
    /\ replies' = <<>>
    /\ results' = <<>>
    /\ msg' = NoData
    /\ optionsOpened' = FALSE
    /\ nDiscovery' = 0
    /\ nConfirm' = 0
    /\ discoveryBad' = FALSE
    /\ UNCHANGED <<strategy, apiKey, pageVars>>

\* The popup sends scanForAds while no scan is in flight
StartScanUpTo(n) ==
    /\ pc \in {"idle", "done"}
    /\ scanNo < n
    /\ BeginScan

\* await chrome.scripting.executeScript({files: ['content.js']}): the script
\* runs in the page and registers one more message listener
Inject ==
    /\ pc = "inject"
    /\ \/ /\ tabId # 0
          /\ listeners' = listeners + 1
          /\ Goto(CASE strategy = "skeleton" -> "getKey"
                    [] strategy = "heuristic" -> "candidates"
                    [] OTHER -> "readHtml")
       \/ /\ \E m \in {"Cannot access contents of the page.", ""} : Throw(m)
          /\ UNCHANGED listeners
    /\ UNCHANGED <<auxVars, strategy, apiKey, doc, overlays, renderSeq, lastRender, scanNo,
                   tabId, adSelectors, fanVars, msg, optionsOpened, countVars, discoveryBad>>

\* await chrome.storage.sync.get('apiKey') and the credential check
GetApiKey ==
    /\ pc = "getKey"
    /\ IF apiKey = ""
       THEN /\ Respond(noKeyReply)
            /\ optionsOpened' = TRUE
            /\ UNCHANGED <<fanVars, nConfirm>>
       ELSE /\ UNCHANGED optionsOpened
            /\ CASE strategy = "skeleton" ->
                      Goto("skeleton") /\ UNCHANGED <<fanVars, nConfirm>>
                 [] strategy = "heuristic" -> FanOut(cands)
                 [] OTHER -> Goto("inject") /\ UNCHANGED <<fanVars, nConfirm>>
    /\ UNCHANGED <<auxVars, strategy, apiKey, pageVars, scanNo, tabId, adSelectors, msg,
                   nDiscovery, discoveryBad>>

\* Skeleton strategy: await sendMessage(getSkeletonHtml).  The skeleton is
\* body's outerHTML, never an empty string.
GetSkeletonHtml ==
    /\ pc = "skeleton"
    /\ \/ listeners > 0 /\ Goto("discover")
       \/ Throw(NoReceiverMessage)
    /\ UNCHANGED <<auxVars, strategy, apiKey, pageVars, scanNo, tabId, adSelectors, fanVars,
                   msg, optionsOpened, countVars, discoveryBad>>

\* Skeleton strategy: await findAdSelectorsFromSkeleton(skeletonHtml, apiKey)
FindAdSelectorsFrom(R) ==
    /\ pc = "discover"
    /\ \E r \in R :
        LET a == findAdSelectorsFromSkeleton(r)
        IN /\ discoveryBad' = ~hasSelectorList(r)
           /\ adSelectors' = a
           /\ nDiscovery' = nDiscovery + 1
           /\ IF noSelectors(a)
              THEN Respond(zeroReply)
              ELSE Goto("snippets")
    /\ UNCHANGED <<auxVars, strategy, apiKey, pageVars, scanNo, tabId, fanVars, msg,
                   optionsOpened, nConfirm>>

\* Skeleton strategy: await sendMessage(getAdSnippets), then the fan-out.
\* When selectors is no list the listener throws on selectors.map and never
\* responds: the await yields undefined or rejects, and the handler throws.
GetAdSnippets ==
    /\ pc = "snippets"
    /\ \/ /\ listeners > 0
          /\ adSelectors.type = "list"
          /\ FanOut(getAdSnippets(adSelectors.items, doc, overlays))
       \/ /\ adSelectors.type # "list"
          /\ \E m \in {TypeErrorMessage, NoReceiverMessage} : Throw(m)
          /\ UNCHANGED <<fanVars, nConfirm>>
       \/ /\ Throw(NoReceiverMessage)
          /\ UNCHANGED <<fanVars, nConfirm>>
    /\ UNCHANGED <<auxVars, strategy, apiKey, pageVars, scanNo, tabId, adSelectors, msg,
                   optionsOpened, nDiscovery, discoveryBad>>

\* Heuristic strategy: await sendMessage(findAdCandidates) and the
\* zero-candidate short-circuit
FindAdCandidates ==
    /\ pc = "candidates"
    /\ \/ LET cs == findPotentialAds(doc, overlays)
          IN /\ listeners > 0
             /\ cands' = cs
             /\ IF Len(cs) = 0
                THEN Respond(zeroReply)
                ELSE Goto("getKey")
       \/ /\ Throw(NoReceiverMessage)
          /\ UNCHANGED cands
    /\ UNCHANGED <<auxVars, strategy, apiKey, pageVars, scanNo, tabId, adSelectors, pending,
                   replies, results, msg, optionsOpened, countVars, discoveryBad>>

\* Mutant: a request that failed is sent once more
refetchesOnFailure(r) == IF r.outcome # "text" THEN 1 ELSE 0

\* The requests analyzeAdSnippet sends after the endpoint's reply: its failure
\* paths log and return, none calls fetch again
refetches(r) == 0

\* The analyzeAdSnippet promise of candidate i settles on the endpoint's reply
SettleRequestOf(R, i) ==
    /\ pc = "await"
    /\ i \in pending
    /\ \E r \in R :
        /\ replies' = [replies EXCEPT ![i] = r]
        /\ results' = [results EXCEPT ![i] = analyzeAdSnippet(r)]
        /\ pending' = pending \ {i}
        /\ nConfirm' = nConfirm + refetches(r)
    /\ UNCHANGED <<strategy, apiKey, pageVars, scanNo, pc, tabId, adSelectors, cands,
                   msg, reply, nResponses, optionsOpened, nDiscovery, thrown,
                   discoveryBad>>

\* One analyzeAdSnippet promise settles, whichever the endpoint answers first
SettleRequestFrom(R) ==
    /\ \E i \in pending : SettleRequestOf(R, i)
    /\ UNCHANGED auxVars

\* Mutant: the handler goes on without awaiting the requests
promiseAllNotAwaited(pend) == TRUE

\* await Promise.all(analysisPromises) resolves once no promise is pending
promiseAll(pend) == pend = {}

\* await Promise.all resolves: filter to confirmedAds, then send
\* createOverlays or short-circuit
FanIn ==
    /\ pc = "await"
    /\ promiseAll(pending)
    /\ IF confirmThrows(results)
       THEN Throw(TypeErrorMessage) /\ UNCHANGED msg
       ELSE LET ads == confirmedAds(cands, results, 1)
            IN IF Len(ads) > 0
               THEN Goto("render") /\ msg' = AdData("ads", ads)
               ELSE Respond(zeroReply) /\ UNCHANGED msg
    /\ UNCHANGED <<auxVars, strategy, apiKey, pageVars, scanNo, tabId, adSelectors, fanVars,
                   optionsOpened, countVars, discoveryBad>>

\* Whole-page strategy: await executeScript(() => outerHTML)
ReadHtml ==
    /\ pc = "readHtml"
    /\ \/ Goto("analyzeHtml")
       \/ Throw("Cannot access contents of the page.")
    /\ UNCHANGED <<auxVars, strategy, apiKey, pageVars, scanNo, tabId, adSelectors, fanVars,
                   msg, optionsOpened, countVars, discoveryBad>>

\* Whole-page strategy: await analyzeHtmlWithGemini(html, apiKey)
AnalyzeHtmlFrom(R) ==
    /\ pc = "analyzeHtml"
    /\ \E r \in R :
        /\ nDiscovery' = nDiscovery + 1
        /\ IF analyzeHtmlThrows(r)
           THEN Throw(analyzeHtmlError(r)) /\ UNCHANGED msg
           ELSE Goto("render") /\ msg' = analyzeHtmlWithGemini(r)
    /\ UNCHANGED <<auxVars, strategy, apiKey, pageVars, scanNo, tabId, adSelectors, fanVars,
                   optionsOpened, nConfirm, discoveryBad>>

\* await sendMessage(createOverlays): every listener of the page clears and
\* renders; the first sendResponse is the response, and the handler replies
\* with its count.  A listener that throws sends no response, and with no
\* listener on the page the send rejects.
CreateOverlays ==
    /\ pc = "render"
    /\ \/ /\ listeners > 0
          /\ renderSeq' = renderSeq + 1
          /\ overlays' = deliverCreateOverlays(listeners, msg, doc, overlays,
                                               renderSeq + 1)
          /\ LET count == createOverlays(msg, doc, overlays, renderSeq + 1).count
             IN /\ lastRender' = [scan |-> scanNo, before |-> Len(overlays),
                                  count |-> count]
                /\ IF createOverlaysThrows(msg)
                   THEN \E m \in {TypeErrorMessage, NoReceiverMessage} : Throw(m)
                   ELSE Respond(Success(count))
       \/ /\ Throw(NoReceiverMessage)
          /\ UNCHANGED <<overlays, renderSeq, lastRender>>
    /\ UNCHANGED <<auxVars, strategy, apiKey, doc, listeners, scanNo, tabId, adSelectors,
                   fanVars, msg, optionsOpened, countVars, discoveryBad>>

StartScan == StartScanUpTo(MaxScans) /\ UNCHANGED auxVars
FindAdSelectors == FindAdSelectorsFrom(DiscoveryReplies)
AnalyzeHtml == AnalyzeHtmlFrom(PageReplies)
SettleRequest == SettleRequestFrom(CoreSnippetReplies)

\* One scan, with every reply of the confirmation stage
StartOneScan == StartScanUpTo(1) /\ UNCHANGED auxVars
SettleAnyReply == SettleRequestFrom(SnippetReplies)

Next ==
    \/ StartScan
    \/ Inject
    \/ GetApiKey
    \/ GetSkeletonHtml
    \/ FindAdSelectors
    \/ GetAdSnippets
    \/ FindAdCandidates
    \/ SettleRequest
    \/ FanIn
    \/ ReadHtml
    \/ AnalyzeHtml
    \/ CreateOverlays

Spec == Init /\ [][Next]_vars

NextConfirm ==
    \/ StartOneScan
    \/ Inject
    \/ GetApiKey
    \/ GetSkeletonHtml
    \/ FindAdSelectors
    \/ GetAdSnippets
    \/ FindAdCandidates
    \/ SettleAnyReply
    \/ FanIn
    \/ ReadHtml
    \/ AnalyzeHtml
    \/ CreateOverlays

SpecConfirm == Init /\ [][NextConfirm]_vars

\* A step of the scan in flight: an awaited call resolves or rejects and the
\* handler runs to its next await or to its end
ScanStep ==
    \/ Inject
    \/ GetApiKey
    \/ GetSkeletonHtml
    \/ FindAdSelectors
    \/ GetAdSnippets
    \/ FindAdCandidates
    \/ SettleAnyReply
    \/ FanIn
    \/ ReadHtml
    \/ AnalyzeHtml
    \/ CreateOverlays

\* One scan in which every awaited external call (injection, storage read,
\* page message, AI fetch) eventually resolves or rejects
SpecLive == Init /\ [][NextConfirm]_vars /\ WF_vars(ScanStep)

(***************************************************************************)
(* The page-side component on its own: the messages and clicks the content *)
(* script handles and the navigation listener of the background script,    *)
(* for each version of the content script.                                 *)
(***************************************************************************)
MaxNavs == 2

Event(kind, arg) == [kind |-> kind, arg |-> arg]

\* The orchestrator each content script version belongs to
orchestratorOf(v) ==
    CASE v = "part_005" -> "skeleton"
      [] v \in {"part_003", "part_006"} -> "heuristic"
      [] OTHER -> "wholepage"

InitPage ==
    /\ script \in Scripts
    /\ strategy = orchestratorOf(script)
    /\ apiKey = "key"
    /\ doc \in Docs
    /\ listeners = 0
    /\ overlays = <<>>
    /\ renderSeq = 0
    /\ scanNo = 0
    /\ pc = "idle"
    /\ tabId = 0
    /\ adSelectors = SelList(<<>>)
    /\ cands = <<>>
    /\ pending = {}
    /\ replies = <<>>
    /\ results = <<>>
    /\ msg = NoData
    /\ reply = NoReply
    /\ nResponses = 0
    /\ optionsOpened = FALSE
    /\ nDiscovery = 0
    /\ nConfirm = 0
    /\ thrown = NotThrown
    /\ discoveryBad = FALSE
    /\ lastRender = NoRender
    /\ AuxInit

scanVars == <<strategy, apiKey, scanNo, pc, tabId, adSelectors, fanVars, reply, nResponses,
              optionsOpened, countVars, thrown, discoveryBad>>
selVars == <<target, selector, found>>

\* executeScript({files: ['content.js']}) runs the script in the page: one
\* more onMessage listener
ContentScriptInjected ==
    /\ listeners < MaxScans
    /\ listeners' = listeners + 1
    /\ event' = Event("inject", 0)
    /\ UNCHANGED <<scanVars, selVars, script, suspended, popup, options, doc, overlays,
                   renderSeq, lastRender,
                   msg, clearMsgs>>

\* The data of the createOverlays messages the page is sent
PageMessages ==
    {NoData} \cup
    {AdData("ads", l) :
        l \in SeqsUpTo({Ad(sel, "X") : sel \in {PathSel(1), InvalidSel}}, MaxAds)}

\* The page receives a createOverlays message
OnCreateOverlays ==
    /\ listeners > 0
    /\ renderSeq < MaxScans
    /\ \E data \in PageMessages :
        /\ msg' = data
        /\ renderSeq' = renderSeq + 1
        /\ overlays' = deliverCreateOverlays(listeners, data, doc, overlays,
                                             renderSeq + 1)
        /\ LET count == createOverlays(data, doc, overlays, renderSeq + 1).count
           IN /\ lastRender' = [scan |-> scanNo, before |-> Len(overlays),
                                count |-> count]
              /\ event' = Event("createOverlays", count)
    /\ UNCHANGED <<scanVars, selVars, script, suspended, popup, options, doc,
                   listeners, clearMsgs>>

\* The user clicks the close button of the i-th overlay
CloseClick ==
    /\ "close" \in overlayParts(script)
    /\ \E i \in 1..Len(overlays) :
        /\ overlays' = removeOverlay(overlays, i)
        /\ event' = Event("close", i)
    /\ UNCHANGED <<scanVars, selVars, script, suspended, popup, options, doc,
                   listeners, renderSeq, lastRender,
                   msg, clearMsgs>>

\* Mutant: the frame is not looked at
sendsClearAlways(frameId) == TRUE

\* if (details.frameId === 0)
sendsClear(frameId) == frameId = 0

\* webNavigation.onCommitted fires for a frame of the tab.  A committed
\* navigation of the top-level frame has replaced the document (here by a
\* reload of the same page): the new page has no overlays and no content
\* script yet.
OnCommitted ==
    /\ \E frameId \in {0, 1} :
        /\ event' = Event("committed", frameId)
        /\ IF frameId = 0
           THEN /\ doc' = doc
                /\ listeners' = 0
                /\ overlays' = <<>>
           ELSE UNCHANGED <<doc, listeners, overlays>>
        /\ IF sendsClear(frameId)
           THEN clearMsgs < MaxNavs /\ clearMsgs' = clearMsgs + 1
           ELSE UNCHANGED clearMsgs
    /\ UNCHANGED <<scanVars, selVars, script, suspended, popup, options, renderSeq,
                   lastRender, msg>>

\* The clearOverlays message reaches the tab: every listener of the page
\* clears; with no listener the send rejects and the catch ignores it
OnClearOverlays ==
    /\ clearMsgs > 0
    /\ clearMsgs' = clearMsgs - 1
    /\ IF listeners = 0
       THEN /\ event' = Event("noReceiver", 0)
            /\ UNCHANGED overlays
       ELSE /\ event' = Event("clearOverlays", Len(overlays))
            /\ overlays' = clearExistingOverlays(overlays)
    /\ UNCHANGED <<scanVars, selVars, script, suspended, popup, options, doc,
                   listeners, renderSeq, lastRender,
                   msg>>

NextPage ==
    \/ ContentScriptInjected
    \/ OnCreateOverlays
    \/ CloseClick
    \/ OnCommitted
    \/ OnClearOverlays

SpecPage == InitPage /\ [][NextPage]_vars

(***************************************************************************)
(* getUniqueSelector and the selector's resolution, on document trees.     *)
(* An element is a record of its tag, its id (a sequence of characters,    *)
(* empty when it has none) and its element children; the document is the   *)
(* sequence of body's children, and an element is named by its path, the   *)
(* child positions from body down.  An id selector is the sequence of the  *)
(* characters of its text; a path selector is its sequence of              *)
(* 'tag:nth-xxx(k)' steps.                                                 *)
(***************************************************************************)
MaxIdLen == 2
MaxKids == 2

Chars == {"a", "1", ":", "."}
Tags == {"div", "span"}
Ids == SeqsUpTo(Chars, MaxIdLen)

Node(tag, id, kids) == [tag |-> tag, id |-> id, kids |-> kids]
Leaf(tag, id) == Node(tag, id, <<>>)

\* Documents of two div elements with any ids
FlatDocs == {<<Leaf("div", a), Leaf("div", b)>> : a, b \in Ids}

\* Documents of one or two elements, with or without an id, each with up to
\* MaxKids children without ids
TreeNodes ==
    {Node(t, i, k) : t \in Tags, i \in {<<>>, <<"a">>},
                     k \in SeqsUpTo({Leaf(u, <<>>) : u \in Tags}, MaxKids)}
TreeDocs == {<<a>> : a \in TreeNodes} \cup {<<a, b>> : a, b \in TreeNodes}

SelectorDocs == FlatDocs \cup TreeDocs

\* The versions of the content script that define getUniqueSelector
SelectorScripts == {"part_003", "part_005", "part_006"}

\* parent.children of the element at path q (body's children for <<>>)
childrenOf(tree, q) == IF q = <<>> THEN tree ELSE tree[q[1]].kids

parentOf(q) == SubSeq(q, 1, Len(q) - 1)

elementAt(tree, q) == childrenOf(tree, parentOf(q))[q[Len(q)]]

\* The elements below body, by path
Paths(tree) ==
    {<<i>> : i \in 1..Len(tree)}
        \cup UNION {{<<i, j>> : j \in 1..Len(tree[i].kids)} : i \in 1..Len(tree)}

\* The elements below body in document order
RECURSIVE documentOrder(_, _)
documentOrder(tree, i) ==
    IF i > Len(tree) THEN <<>>
    ELSE <<(<<i>>)>> \o [j \in 1..Len(tree[i].kids) |-> <<i, j>>]
                    \o documentOrder(tree, i + 1)

\* el.id.replace(/:/g, '\\:')
RECURSIVE escapeColons(_)
escapeColons(id) ==
    IF id = <<>> THEN <<>>
    ELSE (IF Head(id) = ":" THEN <<"\\", ":">> ELSE <<Head(id)>>)
             \o escapeColons(Tail(id))

\* Mutant: the position among all the siblings
childIndexAsTypeIndex(sibs, i) == i

\* The loop over previousElementSibling: 1 + the earlier siblings of the
\* same tag
nthOfTypeIndex(sibs, i) ==
    1 + Cardinality({k \in 1..(i - 1) : sibs[k].tag = sibs[i].tag})

\* Array.from(parent.children).indexOf(currentEl) + 1
nthChildIndex(sibs, i) == i

\* One step '> tag:nth-of-type(k)' or '> tag:nth-child(k)' of the path, for
\* the element at path q
PathStep(v, tree, q) ==
    LET sibs == childrenOf(tree, parentOf(q))
        i == q[Len(q)]
    IN IF v = "part_005"
       THEN [tag |-> sibs[i].tag, pseudo |-> "nth-of-type",
             index |-> nthOfTypeIndex(sibs, i)]
       ELSE [tag |-> sibs[i].tag, pseudo |-> "nth-child",
             index |-> nthChildIndex(sibs, i)]

\* getUniqueSelector(el) of version v, for the element at path q
getUniqueSelectorIn(v, tree, q) ==
    LET el == elementAt(tree, q)
    IN IF el.id # <<>>
       THEN [kind |-> "id",
             text |-> <<"#">> \o (IF v = "part_003" THEN el.id
                                  ELSE escapeColons(el.id)),
             steps |-> <<>>]
       ELSE [kind |-> "path", text |-> <<>>,
             steps |-> [k \in 1..Len(q) |-> PathStep(v, tree, SubSeq(q, 1, k))]]

(***************************************************************************)
(* document.querySelector on such a selector.  An identifier is read as the *)
(* selector grammar reads it: a backslash takes the next character as it   *)
(* is, a digit cannot start it, and ':' and '.' end it.                    *)
RECURSIVE readIdent(_, _)
readIdent(cs, acc) ==
    IF cs = <<>> THEN [name |-> acc, rest |-> cs]
    ELSE IF Head(cs) = "\\"
         THEN IF Len(cs) >= 2
              THEN readIdent(SubSeq(cs, 3, Len(cs)), Append(acc, cs[2]))
              ELSE [name |-> acc, rest |-> cs]
    ELSE IF Head(cs) = "a" \/ (Head(cs) = "1" /\ acc # <<>>)
         THEN readIdent(Tail(cs), Append(acc, Head(cs)))
    ELSE [name |-> acc, rest |-> cs]

\* What follows the id of '#id': nothing, or '.class' parts; anything else
\* (an unknown pseudo-class, a stray character) is a syntax error
RECURSIVE readClasses(_, _)
readClasses(cs, n) ==
    IF cs = <<>> THEN [valid |-> TRUE, classes |-> n]
    ELSE IF Head(cs) = "." /\ readIdent(Tail(cs), <<>>).name # <<>>
         THEN readClasses(readIdent(Tail(cs), <<>>).rest, n + 1)
    ELSE [valid |-> FALSE, classes |-> n]

\* The parse of the text '#...': the id it asks for and the number of
\* classes it asks for besides
parseIdSelector(text) ==
    LET first == readIdent(Tail(text), <<>>)
        tail == readClasses(first.rest, 0)
    IN [valid |-> first.name # <<>> /\ tail.valid,
        id |-> first.name,
        classes |-> tail.classes]

\* document.querySelector(sel) throws a SyntaxError
selectorThrows(sel) == sel.kind = "id" /\ ~parseIdSelector(sel.text).valid

\* The element at path q matches one step of a path selector
stepMatches(step, sibs, i) ==
    /\ sibs[i].tag = step.tag
    /\ IF step.pseudo = "nth-of-type"
       THEN 1 + Cardinality({k \in 1..(i - 1) : sibs[k].tag = step.tag}) = step.index
       ELSE i = step.index

\* The element at path q matches the selector.  The elements carry no class.
matchesSelector(sel, tree, q) ==
    IF sel.kind = "id"
    THEN LET parsed == parseIdSelector(sel.text)
         IN elementAt(tree, q).id = parsed.id /\ parsed.classes = 0
    ELSE /\ Len(q) = Len(sel.steps)
         /\ \A k \in 1..Len(q) :
                stepMatches(sel.steps[k],
                            childrenOf(tree, parentOf(SubSeq(q, 1, k))), q[k])

\* document.querySelectorAll(sel): the matching elements in document order
querySelectorAllIn(sel, tree) ==
    SelectSeq(documentOrder(tree, 1), LAMBDA q : matchesSelector(sel, tree, q))

InitSelector ==
    /\ script \in SelectorScripts
    /\ strategy = orchestratorOf(script)
    /\ apiKey = "key"
    /\ doc \in SelectorDocs
    /\ listeners = 0
    /\ overlays = <<>>
    /\ renderSeq = 0
    /\ scanNo = 0
    /\ pc = "idle"
    /\ tabId = 0
    /\ adSelectors = SelList(<<>>)
    /\ cands = <<>>
    /\ pending = {}
    /\ replies = <<>>
    /\ results = <<>>
    /\ msg = NoData
    /\ reply = NoReply
    /\ nResponses = 0
    /\ optionsOpened = FALSE
    /\ nDiscovery = 0
    /\ nConfirm = 0
    /\ thrown = NotThrown
    /\ discoveryBad = FALSE
    /\ lastRender = NoRender
    /\ AuxInit

\* getUniqueSelector(el) is called on an element of the document
GetUniqueSelector ==
    /\ \E q \in Paths(doc) :
        /\ target' = q
        /\ selector' = getUniqueSelectorIn(script, doc, q)
    /\ found' = NoResult
    /\ UNCHANGED <<scanVars, pageVars, msg, script, suspended, popup, options, event,
                   clearMsgs>>

\* The document is queried with the selector
QuerySelector ==
    /\ selector # NoSelector
    /\ ~found.done
    /\ found' = IF selectorThrows(selector)
                THEN [done |-> TRUE, throws |-> TRUE, matches |-> <<>>]
                ELSE [done |-> TRUE, throws |-> FALSE,
                      matches |-> querySelectorAllIn(selector, doc)]
    /\ UNCHANGED <<scanVars, pageVars, msg, script, suspended, popup, options, event,
                   clearMsgs, target,
                   selector>>

NextSelector ==
    \/ GetUniqueSelector
    \/ QuerySelector

SpecSelector == InitSelector /\ [][NextSelector]_vars

(***************************************************************************)
(* findPotentialAds, detector by detector, in the two versions of the       *)
(* heuristic content script.  An element is a record of its id, the        *)
(* detectors whose query matches it, and what addCandidate's filter reads. *)
(***************************************************************************)
MaxElems == 2

HeuristicScripts == {"part_003", "part_006"}

\* The detectors of each version, in the order findPotentialAds runs them
Detectors(v) ==
    IF v = "part_003"
    THEN <<"keyword", "iframe">>
    ELSE <<"keyword", "dataAd", "iframe", "blankLink", "role", "fixed">>

HeuristicElems ==
    {[id |-> i, by |-> b, big |-> g, visible |-> w] :
        i \in {"", "ad"},
        b \in {{}, {"keyword"}, {"iframe"}, {"keyword", "iframe"}, {"fixed"}},
        g \in BOOLEAN, w \in BOOLEAN}

HeuristicDocs == SeqsUpTo(HeuristicElems, MaxElems) \ {<<>>}

\* document.querySelectorAll(<the detector's query>): the positions of the
\* elements it matches, in document order
RECURSIVE nominatedBy(_, _, _)
nominatedBy(det, d, n) ==
    IF n > Len(d) THEN <<>>
    ELSE (IF det \in d[n].by THEN <<n>> ELSE <<>>) \o nominatedBy(det, d, n + 1)

\* Mutant: the candidates.has(selector) test is left out
addCandidateNoHas(acc, n, d) ==
    IF PassesFilter(n, d, <<>>)
    THEN Append(acc, Candidate(getUniqueSelector(n, d), n))
    ELSE acc

\* addCandidate(el) of part_006: the filter, then candidates.set unless the
\* selector is a key already
addCandidate(acc, n, d) ==
    IF /\ PassesFilter(n, d, <<>>)
       /\ \A k \in 1..Len(acc) : acc[k].selector # getUniqueSelector(n, d)
    THEN Append(acc, Candidate(getUniqueSelector(n, d), n))
    ELSE acc

\* The forEach callbacks of part_003: the keyword detector filters and
\* pushes, the iframe detector pushes
pushCandidate(det, acc, n, d) ==
    IF det = "keyword" /\ ~PassesFilter(n, d, <<>>)
    THEN acc
    ELSE Append(acc, Candidate(getUniqueSelector(n, d), n))

\* One detector's forEach over the elements ns
RECURSIVE forEachNominated(_, _, _, _, _)
forEachNominated(v, det, ns, acc, d) ==
    IF ns = <<>> THEN acc
    ELSE forEachNominated(v, det, Tail(ns),
                          IF v = "part_003"
                          THEN pushCandidate(det, acc, Head(ns), d)
                          ELSE addCandidate(acc, Head(ns), d),
                          d)

\* The detectors from the k-th on
RECURSIVE runDetectors(_, _, _, _)
runDetectors(v, k, acc, d) ==
    IF k > Len(Detectors(v)) THEN acc
    ELSE runDetectors(v, k + 1,
                      forEachNominated(v, Detectors(v)[k],
                                       nominatedBy(Detectors(v)[k], d, 1), acc, d),
                      d)

\* Array.from(new Map(candidates.map(item => [item.selector, item])).values()):
\* one entry per selector, at the place of its first item, holding its last
uniqueBySelector(cs) ==
    LET firsts == SelectSeq([k \in 1..Len(cs) |-> k],
                            LAMBDA k : \A m \in 1..(k - 1) :
                                          cs[m].selector # cs[k].selector)
        last(k) == CHOOSE m \in 1..Len(cs) :
                      /\ cs[m].selector = cs[k].selector
                      /\ \A m2 \in (m + 1)..Len(cs) : cs[m2].selector # cs[k].selector
    IN [j \in 1..Len(firsts) |-> cs[last(firsts[j])]]

\* findPotentialAds() of version v
findPotentialAdsOf(v, d) ==
    IF v = "part_003"
    THEN uniqueBySelector(runDetectors(v, 1, <<>>, d))
    ELSE runDetectors(v, 1, <<>>, d)

InitHeuristic ==
    /\ script \in HeuristicScripts
    /\ strategy = orchestratorOf(script)
    /\ apiKey = "key"
    /\ doc \in HeuristicDocs
    /\ listeners = 1
    /\ overlays = <<>>
    /\ renderSeq = 0
    /\ scanNo = 0
    /\ pc = "idle"
    /\ tabId = 0
    /\ adSelectors = SelList(<<>>)
    /\ cands = <<>>
    /\ pending = {}
    /\ replies = <<>>
    /\ results = <<>>
    /\ msg = NoData
    /\ reply = NoReply
    /\ nResponses = 0
    /\ optionsOpened = FALSE
    /\ nDiscovery = 0
    /\ nConfirm = 0
    /\ thrown = NotThrown
    /\ discoveryBad = FALSE
    /\ lastRender = NoRender
    /\ AuxInit

\* The page receives findAdCandidates and responds with findPotentialAds()
OnFindAdCandidates ==
    /\ event = NoEvent
    /\ cands' = findPotentialAdsOf(script, doc)
    /\ event' = Event("findAdCandidates", Len(cands'))
    /\ UNCHANGED <<strategy, apiKey, scanNo, pc, tabId, adSelectors, pending,
                   replies, results, reply, nResponses, optionsOpened, countVars, thrown,
                   discoveryBad, pageVars, msg, script, suspended, popup, options,
                   clearMsgs, selVars>>

NextHeuristic == OnFindAdCandidates

SpecHeuristic == InitHeuristic /\ [][NextHeuristic]_vars

(***************************************************************************)
(* One scan whose confirmation requests complete in any order, with the    *)
(* request that completed last recorded as the last event.                 *)
(***************************************************************************)
\* Replies that tell the candidates apart by their description
OrderReplies ==
    {Rejected, Bare(NotAdReply), Bare(IsAdReply), Bare(ClassObj("true", "Y", FALSE))}

\* One analyzeAdSnippet promise settles; the last event is its index
SettleInAnyOrder ==
    \E i \in pending :
        /\ SettleRequestOf(OrderReplies, i)
        /\ event' = Event("settled", i)
        /\ UNCHANGED <<script, suspended, popup, options, clearMsgs, selVars>>

NextOrder ==
    \/ StartOneScan
    \/ Inject
    \/ GetApiKey
    \/ GetSkeletonHtml
    \/ FindAdSelectors
    \/ GetAdSnippets
    \/ FindAdCandidates
    \/ SettleInAnyOrder
    \/ FanIn
    \/ ReadHtml
    \/ AnalyzeHtml
    \/ CreateOverlays

SpecOrder == Init /\ [][NextOrder]_vars

(***************************************************************************)
(* Scans of a tab that navigates: the navigation listener's clearOverlays  *)
(* message is delivered at any later moment, also while a scan is in       *)
(* flight.  The last event is the last scan start, navigation or handled   *)
(* clearOverlays message.                                                  *)
(***************************************************************************)
NavReplies == {Rejected, Bare(IsAdReply)}
NavDiscoveryReplies ==
    {Rejected, Bare(DiscObj(SelList(<<IdSel("top-banner"), PathSel(2)>>)))}
NavPageReplies ==
    {Rejected, Bare(AdData("ads", <<Ad(IdSel("top-banner"), "X"), Ad(PathSel(2), "X")>>))}

\* The popup sends scanForAds
StartScanInTab ==
    /\ StartScanUpTo(MaxScans)
    /\ event' = Event("scanForAds", scanNo + 1)
    /\ UNCHANGED <<script, suspended, popup, options, clearMsgs, selVars>>

SettleRequestInTab == SettleRequestFrom(NavReplies)
FindAdSelectorsInTab == FindAdSelectorsFrom(NavDiscoveryReplies)
AnalyzeHtmlInTab == AnalyzeHtmlFrom(NavPageReplies)

NextNav ==
    \/ StartScanInTab
    \/ Inject
    \/ GetApiKey
    \/ GetSkeletonHtml
    \/ FindAdSelectorsInTab
    \/ GetAdSnippets
    \/ FindAdCandidates
    \/ SettleRequestInTab
    \/ FanIn
    \/ ReadHtml
    \/ AnalyzeHtmlInTab
    \/ CreateOverlays
    \/ OnCommitted
    \/ OnClearOverlays

SpecNav == Init /\ [][NextNav]_vars

(***************************************************************************)
(* Two scans of one page that overlap in time.  The service worker runs    *)
(* one handler at a time, and at every await the other handler may go on:  *)
(* the variables of the scan hold the handler that is running, suspended   *)
(* the one that waits.                                                     *)
(***************************************************************************)
\* The local state of the running handler
Handler ==
    [scanNo |-> scanNo, pc |-> pc, tabId |-> tabId, adSelectors |-> adSelectors,
     cands |-> cands, pending |-> pending, replies |-> replies, results |-> results,
     msg |-> msg, reply |-> reply, optionsOpened |-> optionsOpened,
     nDiscovery |-> nDiscovery, nConfirm |-> nConfirm, thrown |-> thrown,
     discoveryBad |-> discoveryBad]

\* The popup sends the first scanForAds
StartFirstScan == StartScanUpTo(1) /\ UNCHANGED auxVars

\* A second scanForAds arrives while the first scan waits at an await
StartOverlappingScan ==
    /\ pc \notin {"idle", "done"}
    /\ suspended = <<>>
    /\ suspended' = <<Handler>>
    /\ BeginScan
    /\ UNCHANGED <<script, event, clearMsgs, selVars, popup, options>>

\* The running handler waits at an await (or has ended) and the other
\* handler's awaited call settles: the other handler runs
Resume ==
    /\ suspended # <<>>
    /\ suspended[1].pc # "done"
    /\ suspended' = <<Handler>>
    /\ scanNo' = suspended[1].scanNo
    /\ pc' = suspended[1].pc
    /\ tabId' = suspended[1].tabId
    /\ adSelectors' = suspended[1].adSelectors
    /\ cands' = suspended[1].cands
    /\ pending' = suspended[1].pending
    /\ replies' = suspended[1].replies
    /\ results' = suspended[1].results
    /\ msg' = suspended[1].msg
    /\ reply' = suspended[1].reply
    /\ optionsOpened' = suspended[1].optionsOpened
    /\ nDiscovery' = suspended[1].nDiscovery
    /\ nConfirm' = suspended[1].nConfirm
    /\ thrown' = suspended[1].thrown
    /\ discoveryBad' = suspended[1].discoveryBad
    /\ UNCHANGED <<strategy, apiKey, pageVars, nResponses, script, event, clearMsgs,
                   selVars, popup, options>>

NextOverlap ==
    \/ StartFirstScan
    \/ StartOverlappingScan
    \/ Resume
    \/ Inject
    \/ GetApiKey
    \/ GetSkeletonHtml
    \/ FindAdSelectorsInTab
    \/ GetAdSnippets
    \/ FindAdCandidates
    \/ SettleRequestInTab
    \/ FanIn
    \/ ReadHtml
    \/ AnalyzeHtmlInTab
    \/ CreateOverlays

SpecOverlap == Init /\ [][NextOverlap]_vars

(***************************************************************************)
(* The page's discovery handlers on documents with content: an element has *)
(* a tag, attribute names, the tokens of its rel attribute, own text or    *)
(* none, and child elements (leaves), besides what the candidate scan      *)
(* reads of it.                                                            *)
(***************************************************************************)
MaxSkelKids == 2

SkelEl(tag, attrs, rel, text, kids) ==
    [id |-> "", nominated |-> tag = "div", big |-> TRUE, visible |-> TRUE,
     tag |-> tag, attrs |-> attrs, rel |-> rel, text |-> text, kids |-> kids]

SkelLeaves ==
    {SkelEl("script", {"src"}, <<>>, TRUE, <<>>),
     SkelEl("style", {}, <<>>, TRUE, <<>>),
     SkelEl("link", {"rel", "href"}, <<"stylesheet">>, FALSE, <<>>),
     SkelEl("link", {"rel", "href"}, <<"alternate", "stylesheet">>, FALSE, <<>>),
     SkelEl("link", {"rel", "href"}, <<"icon">>, FALSE, <<>>),
     SkelEl("p", {"class"}, <<>>, TRUE, <<>>),
     SkelEl("div", {"class"}, <<>>, TRUE, <<>>),
     SkelEl("img", {"src", "srcset", "alt"}, <<>>, FALSE, <<>>),
     SkelEl("source", {"src"}, <<>>, FALSE, <<>>)}

SkelParents ==
    {SkelEl("div", {"class"}, <<>>, TRUE, k) : k \in SeqsUpTo(SkelLeaves, MaxSkelKids)}
      \cup {SkelEl("a", {"href"}, <<>>, TRUE, k) : k \in SeqsUpTo(SkelLeaves, MaxSkelKids)}
      \cup {SkelEl("video", {"src", "poster"}, <<>>, FALSE, k) :
                k \in SeqsUpTo(SkelLeaves, MaxSkelKids)}

\* Documents of one element, and of a paragraph after a script
SkeletonDocs ==
    {<<e>> : e \in SkelLeaves \cup SkelParents}
      \cup {<<SkelEl("script", {"src"}, <<>>, TRUE, <<>>), e>> : e \in SkelLeaves}

\* An overlay as an element of body: a div holding the description box
OverlayElement ==
    SkelEl("div", {"class", "style"}, <<>>, FALSE,
           <<SkelEl("div", {"class"}, <<>>, TRUE, <<>>)>>)

\* document.body's children: the document's elements, then the overlays
bodyChildren(d, ovs) == d \o [i \in 1..Len(ovs) |-> OverlayElement]

\* document.body.cloneNode(true): a deep copy, equal to the original
cloneNode(body) == body

\* Apply F to every element of the tree, parents before their children
mapElements(tree, F(_)) ==
    [i \in 1..Len(tree) |->
        LET e == F(tree[i])
        IN [e EXCEPT !.kids = [j \in 1..Len(e.kids) |-> F(e.kids[j])]]]

\* The selector 'script, style, link[rel="stylesheet"]' does not match
notBulk(e) ==
    ~(e.tag \in {"script", "style"} \/ (e.tag = "link" /\ e.rel = <<"stylesheet">>))

\* querySelectorAll('script, style, link[rel="stylesheet"]').forEach(el => el.remove())
removeBulk(tree) ==
    LET top == SelectSeq(tree, notBulk)
    IN [i \in 1..Len(top) |-> [top[i] EXCEPT !.kids = SelectSeq(@, notBulk)]]

LeafTextTags == {"p", "h1", "h2", "h3", "h4", "h5", "h6", "span", "li", "a", "td", "th"}

\* if (el.children.length === 0) el.textContent = ''
clearLeafText(e) ==
    IF e.tag \in LeafTextTags /\ e.kids = <<>> THEN [e EXCEPT !.text = FALSE] ELSE e

\* Mutant: srcset stays on the img
stripImgSrcOnly(e) ==
    IF e.tag = "img" THEN [e EXCEPT !.attrs = @ \ {"src"}] ELSE e

\* img.removeAttribute('src'); img.removeAttribute('srcset')
stripImg(e) ==
    IF e.tag = "img" THEN [e EXCEPT !.attrs = @ \ {"src", "srcset"}] ELSE e

notSource(e) == e.tag # "source"

\* vid.removeAttribute('src'); vid.querySelectorAll('source').forEach(s => s.remove())
stripVideo(e) ==
    IF e.tag = "video"
    THEN [e EXCEPT !.attrs = @ \ {"src"}, !.kids = SelectSeq(@, notSource)]
    ELSE e

\* Mutant: the skeleton is built on document.body itself
createSkeletonHtmlInPlace(body) ==
    LET skeleton == mapElements(mapElements(mapElements(removeBulk(body),
                                    clearLeafText), stripImg), stripVideo)
    IN [html |-> skeleton, live |-> skeleton]

\* createSkeletonHtml(): the skeleton, and document.body as it is left
createSkeletonHtml(body) ==
    LET clonedBody == cloneNode(body)
        skeleton == mapElements(mapElements(mapElements(removeBulk(clonedBody),
                                    clearLeafText), stripImg), stripVideo)
    IN [html |-> skeleton, live |-> body]

\* An overlay over the document's first element, left by an earlier scan
EarlierOverlay == [target |-> 1, description |-> "X", render |-> 1, ad |-> 1, big |-> TRUE]

InitSkeleton ==
    /\ script = "part_005"
    /\ strategy = orchestratorOf(script)
    /\ apiKey = "key"
    /\ doc \in SkeletonDocs
    /\ listeners = 1
    /\ \/ overlays = <<>> /\ renderSeq = 0
       \/ overlays = <<EarlierOverlay>> /\ renderSeq = 1
    /\ scanNo = 0
    /\ pc = "idle"
    /\ tabId = 0
    /\ adSelectors = SelList(<<>>)
    /\ cands = <<>>
    /\ pending = {}
    /\ replies = <<>>
    /\ results = <<>>
    /\ msg = NoData
    /\ reply = NoReply
    /\ nResponses = 0
    /\ optionsOpened = FALSE
    /\ nDiscovery = 0
    /\ nConfirm = 0
    /\ thrown = NotThrown
    /\ discoveryBad = FALSE
    /\ lastRender = NoRender
    /\ AuxInit

\* The page receives getSkeletonHtml and responds with createSkeletonHtml();
\* the body's children are afterwards what the function left of them, the
\* document's elements before the overlays
OnGetSkeletonHtml ==
    LET r == createSkeletonHtml(bodyChildren(doc, overlays))
    IN /\ event' = Event("getSkeletonHtml", r.html)
       /\ doc' = SubSeq(r.live, 1, Len(r.live) - Len(overlays))
       /\ UNCHANGED <<scanVars, selVars, script, suspended, popup, options, listeners,
                      overlays,
                      renderSeq, lastRender, msg, clearMsgs>>

\* The page receives getAdSnippets and responds with the snippets
OnGetAdSnippets ==
    /\ \E sels \in SeqsUpTo({PathSel(1), PathSel(2), InvalidSel}, 2) :
          event' = Event("getAdSnippets", getAdSnippets(sels, doc, overlays))
    /\ UNCHANGED <<scanVars, selVars, script, suspended, popup, options, pageVars, msg,
                   clearMsgs>>

\* The page receives findAdCandidates and responds with findPotentialAds()
OnFindAdCandidatesWithContent ==
    /\ event' = Event("findAdCandidates", findPotentialAds(doc, overlays))
    /\ UNCHANGED <<scanVars, selVars, script, suspended, popup, options, pageVars, msg,
                   clearMsgs>>

NextSkeleton ==
    \/ OnGetSkeletonHtml
    \/ OnGetAdSnippets
    \/ OnFindAdCandidatesWithContent

SpecSkeleton == InitSkeleton /\ [][NextSkeleton]_vars

(***************************************************************************)
(* getUniqueSelector on any element: one of the document, one that is not  *)
(* in the document, body itself, and a form with a control named "id".     *)
(* An element is given by what the function reads of it: its id property   *)
(* and, from the element upwards, each element of its ancestor chain that  *)
(* has a parentElement, with its tag, its position and its parent's tag.   *)
(***************************************************************************)
\* el.id is the id attribute's characters, or, on a form with a control
\* named "id", that control
IdString(chars) == [control |-> FALSE, chars |-> chars]
IdControl == [control |-> TRUE, chars |-> <<>>]

\* `${control}` begins with '[' ("[object HTMLInputElement]")
controlToString == <<"[", "a">>

ChainLink(tag, index, typeIndex, parentTag) ==
    [tag |-> tag, index |-> index, typeIndex |-> typeIndex, parentTag |-> parentTag]

AnyElement(id, chain) == [id |-> id, chain |-> chain]

\* The ancestor chain of the element at path q of the document
chainOf(tree, q) ==
    [k \in 1..Len(q) |->
        LET p == SubSeq(q, 1, Len(q) + 1 - k)
            sibs == childrenOf(tree, parentOf(p))
        IN ChainLink(elementAt(tree, p).tag, p[Len(p)],
                     nthOfTypeIndex(sibs, p[Len(p)]),
                     IF Len(p) = 1 THEN "body" ELSE tree[p[1]].tag)]

AnyElements(tree) ==
    {AnyElement(IdString(elementAt(tree, q).id), chainOf(tree, q)) : q \in Paths(tree)}
      \cup {AnyElement(IdString(i), <<>>) : i \in {<<>>, <<"a">>}}
      \cup {AnyElement(IdString(<<>>), <<ChainLink("span", 1, 1, "div")>>),
            AnyElement(IdString(<<>>), <<ChainLink("body", 2, 1, "html")>>),
            AnyElement(IdControl, <<ChainLink("form", Len(tree) + 1, 1, "body")>>)}

\* One pass of the loop: the step of the path for this element
chainStep(v, c) ==
    IF v = "part_005"
    THEN [tag |-> c.tag, pseudo |-> "nth-of-type", index |-> c.typeIndex]
    ELSE [tag |-> c.tag, pseudo |-> "nth-child", index |-> c.index]

\* while (currentEl.parentElement) { path = step + path; if (parent is body)
\* break; currentEl = parent }
RECURSIVE walkUp(_, _, _)
walkUp(v, chain, path) ==
    IF chain = <<>> THEN path
    ELSE IF Head(chain).parentTag = "body" THEN <<chainStep(v, Head(chain))>> \o path
    ELSE walkUp(v, Tail(chain), <<chainStep(v, Head(chain))>> \o path)

\* getUniqueSelector(el) of version v: the string returned, or a TypeError
\* where el.id has no replace method
getUniqueSelectorOf(v, el) ==
    IF el.id.control
    THEN IF v = "part_003"
         THEN [throws |-> FALSE,
               selector |-> [kind |-> "id", text |-> <<"#">> \o controlToString,
                             steps |-> <<>>]]
         ELSE [throws |-> TRUE, selector |-> NoSelector]
    ELSE IF el.id.chars # <<>>
    THEN [throws |-> FALSE,
          selector |-> [kind |-> "id",
                        text |-> <<"#">> \o (IF v = "part_003" THEN el.id.chars
                                             ELSE escapeColons(el.id.chars)),
                        steps |-> <<>>]]
    ELSE [throws |-> FALSE,
          selector |-> [kind |-> "path", text |-> <<>>,
                        steps |-> walkUp(v, el.chain, <<>>)]]

\* document.querySelector(sel): 'body ' with no step is body itself, the
\* path <<>>
querySelectorAny(sel, tree) ==
    IF selectorThrows(sel) THEN [done |-> TRUE, throws |-> TRUE, matches |-> <<>>]
    ELSE IF sel.kind = "path" /\ sel.steps = <<>>
         THEN [done |-> TRUE, throws |-> FALSE, matches |-> <<(<<>>)>>]
    ELSE [done |-> TRUE, throws |-> FALSE, matches |-> querySelectorAllIn(sel, tree)]

\* Documents of one element with up to MaxKids children
AnyElementDocs == {<<a>> : a \in TreeNodes}

InitAnyElement ==
    /\ script \in SelectorScripts
    /\ strategy = orchestratorOf(script)
    /\ apiKey = "key"
    /\ doc \in AnyElementDocs
    /\ listeners = 1
    /\ overlays = <<>>
    /\ renderSeq = 0
    /\ scanNo = 0
    /\ pc = "idle"
    /\ tabId = 0
    /\ adSelectors = SelList(<<>>)
    /\ cands = <<>>
    /\ pending = {}
    /\ replies = <<>>
    /\ results = <<>>
    /\ msg = NoData
    /\ reply = NoReply
    /\ nResponses = 0
    /\ optionsOpened = FALSE
    /\ nDiscovery = 0
    /\ nConfirm = 0
    /\ thrown = NotThrown
    /\ discoveryBad = FALSE
    /\ lastRender = NoRender
    /\ AuxInit

\* getUniqueSelector(el) is called on any element
GetUniqueSelectorOfAny ==
    /\ \E el \in AnyElements(doc) :
        LET r == getUniqueSelectorOf(script, el)
        IN /\ target' = el
           /\ selector' = r.selector
           /\ event' = Event("getUniqueSelector", r.throws)
    /\ found' = NoResult
    /\ UNCHANGED <<scanVars, pageVars, msg, script, suspended, popup, options, clearMsgs>>

\* The page receives getAdSnippets with the selector: the query in try/catch,
\* .filter(Boolean), sendResponse(snippets)
OnGetAdSnippetsFor ==
    /\ selector # NoSelector
    /\ ~found.done
    /\ found' = querySelectorAny(selector, doc)
    /\ event' = Event("getAdSnippets",
                      IF found'.throws \/ found'.matches = <<>> THEN <<>>
                      ELSE <<[selector |-> selector, html |-> Head(found'.matches)]>>)
    /\ UNCHANGED <<scanVars, pageVars, msg, script, suspended, popup, options,
                   clearMsgs, target, selector>>

NextAnyElement ==
    \/ GetUniqueSelectorOfAny
    \/ OnGetAdSnippetsFor

SpecAnyElement == InitAnyElement /\ [][NextAnyElement]_vars

(***************************************************************************)
(* The heuristic scan of a page run again and again, with overlays         *)
(* rendered and closed in between.  The last event of a run is the number  *)
(* of runs since the page last changed.                                    *)
(***************************************************************************)
InitRepeat ==
    /\ script \in HeuristicScripts
    /\ strategy = orchestratorOf(script)
    /\ apiKey = "key"
    /\ doc \in Docs
    /\ listeners = 1
    /\ overlays = <<>>
    /\ renderSeq = 0
    /\ scanNo = 0
    /\ pc = "idle"
    /\ tabId = 0
    /\ adSelectors = SelList(<<>>)
    /\ cands = <<>>
    /\ pending = {}
    /\ replies = <<>>
    /\ results = <<>>
    /\ msg = NoData
    /\ reply = NoReply
    /\ nResponses = 0
    /\ optionsOpened = FALSE
    /\ nDiscovery = 0
    /\ nConfirm = 0
    /\ thrown = NotThrown
    /\ discoveryBad = FALSE
    /\ lastRender = NoRender
    /\ AuxInit

\* The page receives findAdCandidates once more and responds with
\* findPotentialAds()
OnFindAdCandidatesAgain ==
    LET runs == IF event.kind = "findAdCandidates" THEN event.arg ELSE 0
    IN /\ runs < MaxScans
       /\ cands' = findPotentialAds(doc, overlays)
       /\ event' = Event("findAdCandidates", runs + 1)
       /\ UNCHANGED <<strategy, apiKey, scanNo, pc, tabId, adSelectors, pending,
                      replies, results, reply, nResponses, optionsOpened, countVars,
                      thrown, discoveryBad, pageVars, msg, script, suspended, popup,
                      options,
                      clearMsgs, selVars>>

NextRepeat ==
    \/ OnFindAdCandidatesAgain
    \/ OnCreateOverlays
    \/ CloseClick

SpecRepeat == InitRepeat /\ [][NextRepeat]_vars

(***************************************************************************)
(* The popup.  A click on the scan button starts a handler that awaits     *)
(* tabs.query and then the reply to scanForAds; the handlers of one popup  *)
(* are counted by the await they are at.  The background's scans are those *)
(* of the tab that navigates, without the navigation.                      *)
(***************************************************************************)
Status(text, arg) == [text |-> text, arg |-> arg]

\* Mutant: the handler has no finally block
withoutFinally(p) == p

\* finally { scanButton.disabled = false; }
finally(p) == [p EXCEPT !.disabled = FALSE]

\* catch (error) { statusDiv.textContent = 'An unexpected error occurred.'; }
catch(p) == [p EXCEPT !.status = Status("An unexpected error occurred.", 0)]

\* The lines after the reply: the status line for a success or an error reply
showResponse(p, response) ==
    IF response.status = "success"
    THEN [p EXCEPT !.status = Status("Found and overlaid ads.", response.count)]
    ELSE [p EXCEPT !.status = Status("Error: ", response.message)]

\* The user clicks the scan button, which is not disabled: the handler runs
\* to its first await
PopupClick ==
    /\ ~popup.disabled
    /\ popup.clicks < MaxScans
    /\ popup' = [popup EXCEPT !.disabled = TRUE,
                              !.status = Status("Scanning...", 0),
                              !.querying = @ + 1,
                              !.clicks = @ + 1]
    /\ UNCHANGED <<scanVars, pageVars, msg, script, event, clearMsgs, selVars,
                   suspended, options>>

\* tabs.query resolves with no tab, and tab.id throws: catch, finally
PopupNoTab ==
    /\ popup.querying > 0
    /\ popup' = finally(catch([popup EXCEPT !.querying = @ - 1]))
    /\ UNCHANGED <<scanVars, pageVars, msg, script, event, clearMsgs, selVars,
                   suspended, options>>

\* tabs.query resolves with the tab and scanForAds is sent: the background's
\* handler starts, the popup's handler awaits the reply
PopupSendScanForAds ==
    /\ popup.querying > 0
    /\ StartScanUpTo(MaxScans)
    /\ popup' = [popup EXCEPT !.querying = @ - 1, !.awaiting = @ + 1]
    /\ UNCHANGED <<script, event, clearMsgs, selVars, suspended, options>>

\* The background has called sendResponse: the handler goes on after its
\* await, shows the reply, finally
PopupReply ==
    /\ popup.awaiting > 0
    /\ pc = "done"
    /\ popup' = finally(showResponse([popup EXCEPT !.awaiting = @ - 1], reply))
    /\ UNCHANGED <<scanVars, pageVars, msg, script, event, clearMsgs, selVars,
                   suspended, options>>

\* The steps of the background's scan
ScanStepInTab ==
    \/ Inject
    \/ GetApiKey
    \/ GetSkeletonHtml
    \/ FindAdSelectorsInTab
    \/ GetAdSnippets
    \/ FindAdCandidates
    \/ SettleRequestInTab
    \/ FanIn
    \/ ReadHtml
    \/ AnalyzeHtmlInTab
    \/ CreateOverlays

NextPopup ==
    \/ PopupClick
    \/ PopupNoTab
    \/ PopupSendScanForAds
    \/ PopupReply
    \/ ScanStepInTab

\* Every awaited call of the popup and of the scan eventually settles
SpecPopup ==
    /\ Init
    /\ [][NextPopup]_vars
    /\ WF_vars(PopupNoTab \/ PopupSendScanForAds)
    /\ WF_vars(PopupReply)
    /\ WF_vars(ScanStepInTab)

(***************************************************************************)
(* The options page.  The input's value and the stored key are sequences   *)
(* of characters; apiKey, which the scan reads, is "" while nothing is     *)
(* stored and "key" once a key is.                                         *)
(***************************************************************************)
MaxInputLen == 3

Whitespace == {" ", "\t"}
InputChars == {"k"} \cup Whitespace
Inputs == SeqsUpTo(InputChars, MaxInputLen)

RECURSIVE trimStart(_)
trimStart(s) ==
    IF s # <<>> /\ Head(s) \in Whitespace THEN trimStart(Tail(s)) ELSE s

RECURSIVE trimEnd(_)
trimEnd(s) ==
    IF s # <<>> /\ s[Len(s)] \in Whitespace THEN trimEnd(SubSeq(s, 1, Len(s) - 1)) ELSE s

\* Mutant: the value is taken as typed
untrimmed(s) == s

\* String.prototype.trim()
trim(s) == trimEnd(trimStart(s))

InitOptions ==
    /\ Init
    /\ strategy = "skeleton"
    /\ apiKey = ""
    /\ doc = DocBanner

optionsFrame == <<strategy, scanNo, pc, tabId, adSelectors, fanVars, reply, nResponses,
                  optionsOpened, countVars, thrown, discoveryBad, pageVars, msg, script,
                  clearMsgs, selVars, suspended, popup>>

\* The user types into the input
TypeApiKey ==
    /\ \E s \in Inputs : options' = [options EXCEPT !.input = s]
    /\ event' = Event("input", 0)
    /\ UNCHANGED <<apiKey, optionsFrame>>

\* saveOptions(): a click on the save button
SaveOptions ==
    LET key == trim(options.input)
    IN /\ IF key # <<>>
          THEN /\ options' = [options EXCEPT !.stored = key, !.saving = TRUE]
               /\ apiKey' = "key"
          ELSE /\ options' = [options EXCEPT !.status = "Please enter a valid API key."]
               /\ UNCHANGED apiKey
       /\ event' = Event("saveOptions", 0)
       /\ UNCHANGED optionsFrame

\* The callback of chrome.storage.sync.set
SavedCallback ==
    /\ options.saving
    /\ options' = [options EXCEPT !.saving = FALSE, !.timer = TRUE,
                                  !.status = "API Key saved successfully!"]
    /\ event' = Event("saved", 0)
    /\ UNCHANGED <<apiKey, optionsFrame>>

\* The callback of setTimeout, two seconds later
StatusTimeout ==
    /\ options.timer
    /\ options' = [options EXCEPT !.timer = FALSE, !.status = ""]
    /\ event' = Event("timeout", 0)
    /\ UNCHANGED <<apiKey, optionsFrame>>

\* The options page is opened anew and DOMContentLoaded runs restoreOptions()
\* with its storage callback
RestoreOptions ==
    /\ options' = [OptionsLoaded EXCEPT !.stored = options.stored,
                                        !.input = options.stored]
    /\ event' = Event("restoreOptions", 0)
    /\ UNCHANGED <<apiKey, optionsFrame>>

NextOptions ==
    \/ TypeApiKey
    \/ SaveOptions
    \/ SavedCallback
    \/ StatusTimeout
    \/ RestoreOptions

SpecOptions == InitOptions /\ [][NextOptions]_vars

(***************************************************************************)
(* Properties                                                              *)
(***************************************************************************)
\* The page has handled a createOverlays message in this step
Rendered == renderSeq' # renderSeq

\* The ads of the createOverlays message in flight
MsgAds == IF msg.type = "ads" THEN msg.ads ELSE <<>>

\* The overlays, among ovs, made for the ads before the j-th
MadeBefore(ovs, j) == {i \in 1..Len(ovs) : ovs[i].ad < j}

\* The j-th ad's selector is valid and matches an element of the page as it
\* is when the loop reaches that ad: the document's elements and the
\* overlays ovs made for the earlier ads
Resolvable(ad, j, ovs) ==
    \/ ad.selector.kind = "id" /\ \E n \in 1..Len(doc) : doc[n].id = ad.selector.id
    \/ /\ ad.selector.kind = "path"
       /\ ad.selector.index \in 1..(Len(doc) + Cardinality(MadeBefore(ovs, j)))

\* C1: handling createOverlays leaves on the page exactly the overlays made
\* for that message's ads; no overlay of an earlier render survives it.
C1_RenderReplacesOverlays ==
    [][Rendered =>
         /\ \A i \in 1..Len(overlays') :
                /\ overlays'[i].render = renderSeq'
                /\ overlays'[i].ad \in 1..Len(MsgAds)
                /\ overlays'[i].description = MsgAds[overlays'[i].ad].description
         /\ \A i, k \in 1..Len(overlays') :
                overlays'[i].ad = overlays'[k].ad => i = k]_vars

\* C1 witness: a render that found overlays of an earlier render on the page
\* and left overlays of its own
C1_Witness ==
    /\ pc = "done"
    /\ lastRender.scan = scanNo
    /\ lastRender.before > 0
    /\ Len(overlays) > 0

\* C3: the count the page replies to createOverlays is the number of overlays
\* that handling added, is at most the number of ads, and is below it only
\* if some ad's selector is invalid or matches no element.
C3_CountIsOverlaysAdded ==
    [][Rendered =>
         /\ lastRender'.count =
                Cardinality({i \in 1..Len(overlays') : overlays'[i].render = renderSeq'})
         /\ lastRender'.count <= Len(MsgAds)
         /\ lastRender'.count < Len(MsgAds) =>
                \E j \in 1..Len(MsgAds) : ~Resolvable(MsgAds[j], j, overlays')]_vars

\* C3 witness: a render that added overlays and replied a count below the
\* number of its ads
C3_Witness ==
    /\ pc = "done"
    /\ lastRender.scan = scanNo
    /\ reply.status = "success"
    /\ lastRender.count > 0
    /\ lastRender.count < Len(MsgAds)

\* C10: an ad whose selector throws or matches nothing gets no overlay, and
\* every other ad of the list gets one, wherever the bad entry stands.
C10_BadSelectorSkipped ==
    [][Rendered =>
         \A j \in 1..Len(MsgAds) :
             Resolvable(MsgAds[j], j, overlays')
                 <=> \E i \in 1..Len(overlays') : overlays'[i].ad = j]_vars

\* C10 witness: a list whose first ad has a selector that throws and whose
\* second ad got its overlay
C10_Witness ==
    /\ pc = "done"
    /\ lastRender.scan = scanNo
    /\ Len(MsgAds) = 2
    /\ querySelectorThrows(MsgAds[1].selector)
    /\ \E i \in 1..Len(overlays) : overlays[i].ad = 2

\* The scan in flight has sent its reply to the caller
Replied == pc = "done" /\ reply.status # "none"

\* C2: every overlay rendered by one scan is gone from the page by the time
\* the next scan reports its result, whatever that result is.  Stated for
\* the results the claim names, the replies {status: success, count}.
C2_OverlaysGoneByNextReply ==
    (Replied /\ reply.status = "success")
        => \A i \in 1..Len(overlays) : lastRender.scan = scanNo

(* The confirmation stage, seen from the endpoint's replies.               *)
\* The request failed: fetch rejected, status not OK, a reply without text,
\* or a text that is no JSON
Failing(r) ==
    \/ r.outcome \in {"reject", "notOk", "noText"}
    \/ r.outcome = "text" /\ \E k \in 1..Len(r.text) : r.text[k].kind = "prose"

\* The JSON value a reply's text holds
ReplyValue(r) == (CHOOSE c \in Range(r.text) : c.kind = "json").value

\* The reply is a text holding an object with exactly isAd (boolean) and
\* description (string)
WellFormedReply(r) == ~Failing(r) /\ WellFormed(ReplyValue(r))

\* The candidates whose reply is well formed and has isAd true
Confirmed ==
    {i \in 1..Len(cands) : WellFormedReply(replies[i]) /\ ReplyValue(replies[i]).isAd = "true"}

\* The k-th candidate of Confirmed, in the candidates' order
KthConfirmed(k) ==
    CHOOSE i \in Confirmed : Cardinality({j \in Confirmed : j < i}) = k - 1

\* Promise.all has resolved in this step and the handler went on
FanInDone == pc = "await" /\ pc' # "await"

C5_MalformedReplyGetsSafeDefault ==
    \A i \in DOMAIN replies :
        (/\ i \notin pending
         /\ replies[i].outcome = "text"
         /\ ~WellFormedReply(replies[i]))
            => results[i] = SafeDefault

\* C6: a scan started with no credential stored replies the 'API key is not
\* set' error, signals the options page and sends nothing to the AI
\* endpoint, whatever the page holds.  Stated for the scans in which no step
\* throws.
C6_NoKeyScanReportsMissingKey ==
    (apiKey = "" /\ Replied /\ ~thrown.raised)
        => /\ reply.status = "error"
           /\ reply.message = ApiKeyMessage
           /\ optionsOpened
           /\ nDiscovery = 0
           /\ nConfirm = 0

\* Discovery of the scan in flight has run and yielded zero candidates
ZeroCandidates ==
    \/ /\ strategy = "heuristic"
       /\ pc \notin {"idle", "inject", "candidates"}
       /\ ~thrown.raised
       /\ cands = <<>>
    \/ /\ strategy = "skeleton"
       /\ nDiscovery = 1
       /\ adSelectors = SelList(<<>>)

\* C7: when discovery yields zero candidates the scan replies
\* {status: success, count: 0} and sends no confirmation request.
C7_ZeroCandidatesShortCircuit ==
    ZeroCandidates => (pc = "done" /\ reply = Success(0) /\ nConfirm = 0)

\* C7 witness: the heuristic scan of a page with no ad-like element of
\* sufficient size has replied
C7_Witness ==
    /\ ZeroCandidates
    /\ strategy = "heuristic"
    /\ doc = DocNoAds
    /\ Replied

\* C8: in the skeleton strategy a failed discovery request, or a reply that
\* lacks a "selectors" list of strings, yields zero selectors and the scan
\* replies {status: success, count: 0}.
C8_BadDiscoveryDegradesToZero ==
    (strategy = "skeleton" /\ discoveryBad /\ pc = "done")
        => (adSelectors = SelList(<<>>) /\ reply = Success(0))

\* C9: an exception raised at any step of a scan ends the scan in the catch
\* block, which reports {status: error, message} with a non-empty message.
C9_ExceptionsReported ==
    thrown.raised
        => /\ pc = "done"
           /\ reply.status = "error"
           /\ reply.message # ""
           /\ (thrown.message # "" => reply.message = thrown.message)

\* C9 witness: the whole-page strategy's AI call failed and the scan reported
\* the error
C9_Witness ==
    /\ strategy = "wholepage"
    /\ nDiscovery = 1
    /\ thrown.raised
    /\ lastRender.scan # scanNo
    /\ reply.status = "error"

\* The candidates whose confirmation result is an object with isAd true
IsAdTrue == {i \in 1..Len(cands) : results[i].type = "object" /\ results[i].isAd = "true"}

\* The position the i-th candidate takes in the list of confirmed ads
AdPos(i) == Cardinality({k \in 1..i : isAdTruthy(results[k])})

\* C11: when a scan of the heuristic or skeleton strategy renders and replies
\* success, the count it replies is the number of candidates whose
\* confirmation result has isAd true and whose selector resolves on the page
\* at render time, and that many overlays are on the page.
C11_CountIsConfirmedAndResolved ==
    [][(Rendered /\ strategy # "wholepage" /\ reply'.status = "success") =>
         /\ reply'.count =
                Cardinality({i \in IsAdTrue :
                                Resolvable(cands[i], AdPos(i), overlays')})
         /\ Len(overlays') = reply'.count]_vars

\* The positions, in the selector list sent with getAdSnippets, of the
\* selectors that are valid and match an element of the page
ResolvingSelectors ==
    {k \in 1..Len(adSelectors.items) :
        LET sel == adSelectors.items[k]
        IN \/ sel.kind = "id" /\ \E n \in 1..Len(doc) : doc[n].id = sel.id
           \/ sel.kind = "path" /\ sel.index \in 1..(Len(doc) + Len(overlays))}

\* The j-th of them, in list order
KthResolving(j) ==
    CHOOSE k \in ResolvingSelectors :
        Cardinality({m \in ResolvingSelectors : m < k}) = j - 1

\* The page has answered getAdSnippets in this step
SnippetsAnswered == pc = "snippets" /\ pc' = "await"

\* C20: the reply to getAdSnippets holds one {selector, markup} entry per
\* selector of the list that resolves to an element, in list order, with
\* that element's markup; invalid and unmatched selectors are left out and
\* do not stop the handling of the selectors after them.
C20_SnippetsForResolvingSelectors ==
    [][SnippetsAnswered =>
         /\ Len(cands') = Cardinality(ResolvingSelectors)
         /\ \A j \in 1..Len(cands') :
                /\ cands'[j].selector = adSelectors.items[KthResolving(j)]
                /\ cands'[j].html = querySelector(cands'[j].selector, doc, overlays)
                /\ cands'[j].html # 0]_vars

\* C20 witness: a list whose first selector is invalid and whose second
\* resolves; the reply holds the second one only
C20_Witness ==
    /\ strategy = "skeleton"
    /\ pc = "await"
    /\ adSelectors = SelList(<<InvalidSel, IdSel("top-banner")>>)
    /\ Len(cands) = 1
    /\ cands[1].selector = IdSel("top-banner")

\* C12: a click on the close button of an overlay removes that overlay and
\* leaves the other overlays, in their order, and the page's elements as they
\* were; an overlay appears on the page only by a createOverlays handling.
C12_CloseRemovesOneOverlay ==
    [][/\ event'.kind = "close" =>
            /\ Len(overlays') = Len(overlays) - 1
            /\ \A k \in 1..Len(overlays') :
                   overlays'[k] = IF k < event'.arg THEN overlays[k]
                                  ELSE overlays[k + 1]
            /\ doc' = doc
       /\ \A k \in 1..Len(overlays') :
            \/ \E m \in 1..Len(overlays) : overlays[m] = overlays'[k]
            \/ Rendered /\ overlays'[k].render = renderSeq']_vars

\* C12 witness: the first of two overlays was closed and the second is still
\* on the page
C12_Witness ==
    /\ event = Event("close", 1)
    /\ Len(overlays) = 1
    /\ overlays[1].ad = 2

\* C13: every overlay on the page has a close button and a description box
\* holding the description of the ad it was made for.
C13_OverlayHasCloseAndDescription ==
    \A i \in 1..Len(overlays) :
        /\ {"close", "description"} \subseteq overlayParts(script)
        /\ overlays[i].description = MsgAds[overlays[i].ad].description

\* C14: the navigation listener sends clearOverlays exactly on the events of
\* the top-level frame (frameId 0); an event of a sub-frame leaves the
\* overlays as they are; when the page handles the message no overlay is left.
C14_ClearOnTopLevelNavigationOnly ==
    [][/\ clearMsgs' > clearMsgs <=> (event'.kind = "committed" /\ event'.arg = 0)
       /\ (event'.kind = "committed" /\ event'.arg # 0) =>
              (overlays' = overlays /\ clearMsgs' = clearMsgs)
       /\ event'.kind = "clearOverlays" => Len(overlays') = 0]_vars

\* C14 witness: a clearOverlays message sent on a top-level navigation was
\* handled by a page that had overlays, and none is left
C14_Witness ==
    /\ event.kind = "clearOverlays"
    /\ event.arg > 0
    /\ overlays = <<>>

\* C15: handling clearOverlays leaves zero overlays and leaves the page's own
\* elements alone; on a page without overlays it changes nothing; clearing
\* what a clear has left changes nothing.
C15_ClearIsIdempotent ==
    [][event'.kind = "clearOverlays" =>
         /\ Len(overlays') = 0
         /\ doc' = doc
         /\ Len(overlays) = 0 => overlays' = overlays
         /\ clearExistingOverlays(overlays') = overlays']_vars

\* C15 witness: clearOverlays was handled on a page with no overlays, with a
\* further clearOverlays still to come
C15_Witness ==
    /\ event = Event("clearOverlays", 0)
    /\ clearMsgs > 0
    /\ listeners > 0
    /\ overlays = <<>>

\* getUniqueSelector was called on an element and the document was queried
\* with what it returned
Resolved == selector # NoSelector /\ found.done

\* The id of the element getUniqueSelector was called on
TargetId == elementAt(doc, target).id

\* C16: for an element whose id is non-empty and unique in the document,
\* getUniqueSelector returns an id selector, not a path, and querying the
\* document with it returns that element.
C16_IdSelectorResolvesToElement ==
    (/\ Resolved
     /\ TargetId # <<>>
     /\ \A q \in Paths(doc) : elementAt(doc, q).id = TargetId => q = target)
        => /\ selector.kind = "id"
           /\ Head(selector.text) = "#"
           /\ ~found.throws
           /\ found.matches # <<>>
           /\ Head(found.matches) = target

\* C17: for an element without an id, the path getUniqueSelector builds has
\* one step per level from body down to the element, each with the level's
\* tag and position (among the same-tag siblings in the skeleton version,
\* among all siblings in the heuristic versions), and it matches exactly
\* one element of the document, the element itself.
C17_PathSelectorResolvesToElement ==
    (Resolved /\ TargetId = <<>>)
        => /\ selector.kind = "path"
           /\ Len(selector.steps) = Len(target)
           /\ \A k \in 1..Len(target) :
                  LET sibs == childrenOf(doc, parentOf(SubSeq(target, 1, k)))
                      step == selector.steps[k]
                  IN /\ step.tag = sibs[target[k]].tag
                     /\ script = "part_005" =>
                            /\ step.pseudo = "nth-of-type"
                            /\ step.index =
                                   Cardinality({i \in 1..target[k] :
                                                   sibs[i].tag = step.tag})
                     /\ script # "part_005" =>
                            (step.pseudo = "nth-child" /\ step.index = target[k])
           /\ ~found.throws
           /\ found.matches = <<target>>

\* C17 witness: the second span among div, span, span children of an
\* element, which has no id, resolved by its nth-of-type path
C17_Witness ==
    /\ Resolved
    /\ script = "part_005"
    /\ Len(target) = 2
    /\ TargetId = <<>>
    /\ Len(doc[target[1]].kids) = 2
    /\ doc[target[1]].kids[1].tag = "div"
    /\ doc[target[1]].kids[2].tag = "span"
    /\ target[2] = 2
    /\ selector.steps[2].index = 1
    /\ found.matches = <<target>>

\* The page has answered findAdCandidates
CandidatesFound == event.kind = "findAdCandidates"

\* C18: no two candidates of the list findPotentialAds returns have the same
\* selector.
C18_CandidatesUniqueBySelector ==
    CandidatesFound =>
        \A i, j \in 1..Len(cands) : cands[i].selector = cands[j].selector => i = j

\* C18 witness: an element that passes the filter and is nominated by two
\* detectors is in the list once
C18_Witness ==
    /\ CandidatesFound
    /\ \E n \in 1..Len(doc) :
          /\ doc[n].by = {"keyword", "iframe"}
          /\ doc[n].big /\ doc[n].visible
          /\ Cardinality({i \in 1..Len(cands) : cands[i].html = n}) = 1

\* C19: every candidate findPotentialAds returns, whichever detector
\* nominated it, is an element above the size threshold and in the layout.
C19_CandidatesPassFilter ==
    CandidatesFound =>
        \A i \in 1..Len(cands) :
            doc[cands[i].html].big /\ doc[cands[i].html].visible

(* The confirmation stage's results, as the orchestrator uses them.        *)
\* The value has a description that is a non-empty string
HasDescription(v) == v.type = "object" /\ v.description \notin {"", "absent"}

\* The confirmation requests that have settled
Settled == (1..Len(results)) \ pending

\* C21: every settled classification result has a non-empty description if
\* and only if its isAd is true, every ad of the createOverlays message of a
\* confirmation scan has a non-empty description, and so has every overlay.
C21_DescriptionIffIsAd ==
    /\ \A i \in Settled :
          HasDescription(results[i])
              <=> (results[i].type = "object" /\ results[i].isAd = "true")
    /\ strategy # "wholepage" =>
          \A k \in 1..Len(MsgAds) : MsgAds[k].description \notin {"", "absent"}
    /\ strategy # "wholepage" =>
          \A i \in 1..Len(overlays) : overlays[i].description \notin {"", "absent"}

\* C22: in a scan that dispatched confirmation requests, the createOverlays
\* message is sent, and the caller is answered, only when every request of
\* the scan has settled.
C22_RenderAfterAllSettled ==
    (nConfirm > 0 /\ pc \in {"render", "done"})
        => /\ pending = {}
           /\ \A i \in 1..Len(cands) : results[i] # Unsettled

\* C22 witness: a scan with two requests rendered its one confirmed ad and
\* answered, with both requests settled
C22_Witness ==
    /\ Replied
    /\ nConfirm = 2
    /\ pending = {}
    /\ lastRender.scan = scanNo
    /\ reply = Success(1)
    /\ Len(MsgAds) = 1

\* The candidates whose own reply is an object with isAd true
OwnReplyIsAd ==
    {i \in 1..Len(cands) :
        /\ ~Failing(replies[i])
        /\ ReplyValue(replies[i]).type = "object"
        /\ ReplyValue(replies[i]).isAd = "true"}

\* The k-th candidate of OwnReplyIsAd, in the candidates' order
KthOwnReplyIsAd(k) ==
    CHOOSE i \in OwnReplyIsAd : Cardinality({j \in OwnReplyIsAd : j < i}) = k - 1

\* C23: whatever order the confirmation requests completed in, when the
\* fan-in goes on to render, the ads of the createOverlays message are the
\* candidates whose own reply had isAd true, in the candidates' order, each
\* with its own selector and its own reply's description.
C23_ResultPairedWithCandidate ==
    [][(FanInDone /\ pc' = "render")
          => /\ Len(msg'.ads) = Cardinality(OwnReplyIsAd)
             /\ \A k \in 1..Len(msg'.ads) :
                   msg'.ads[k] = Ad(cands[KthOwnReplyIsAd(k)].selector,
                                    ReplyValue(replies[KthOwnReplyIsAd(k)]).description)]_vars

\* C23 witness: two candidates, the second request completed first; both are
\* confirmed with different descriptions and rendered in the candidates'
\* order
C23_Witness ==
    /\ Replied
    /\ event = Event("settled", 1)
    /\ Len(cands) = 2
    /\ cands[1].selector # cands[2].selector
    /\ replies = <<Bare(ClassObj("true", "Y", FALSE)), Bare(IsAdReply)>>
    /\ MsgAds = <<Ad(cands[1].selector, "Y"), Ad(cands[2].selector, "X")>>
    /\ reply = Success(2)

(* The steps a scan in flight has behind it, read off its position.        *)
\* executeScript has injected the page-side component for this scan
ComponentInjected ==
    CASE strategy = "skeleton" ->
             pc \in {"getKey", "skeleton", "discover", "snippets", "await", "render"}
      [] strategy = "heuristic" -> pc \in {"candidates", "getKey", "await", "render"}
      [] OTHER -> pc \in {"readHtml", "analyzeHtml", "render"}

\* The credential has been read from storage and found present
CredentialFound ==
    CASE strategy = "skeleton" ->
             pc \in {"skeleton", "discover", "snippets", "await", "render"}
      [] strategy = "heuristic" -> pc \in {"await", "render"}
      [] OTHER -> pc \in {"inject", "readHtml", "analyzeHtml", "render"}

\* A discovery request (getSkeletonHtml, findAdCandidates, reading the page
\* HTML) has reached the page
DiscoveryReachedPage ==
    CASE strategy = "skeleton" -> pc \in {"discover", "snippets", "await", "render"}
      [] strategy = "heuristic" -> pc \in {"getKey", "await", "render"}
      [] OTHER -> pc \in {"analyzeHtml", "render"}

\* C24: in a scan the page-side component is injected before the credential
\* is checked, and no discovery request reaches the page before the
\* credential has been found present.
C24_InjectThenCredentialThenDiscovery ==
    /\ CredentialFound => ComponentInjected
    /\ DiscoveryReachedPage => CredentialFound

\* C25: within one scan the discovery stage sends at most one request to
\* the AI endpoint and the confirmation stage exactly one per candidate once
\* it has fanned out, none before; a settled request, failed or not, adds no
\* request, so the scan sends at most 1 plus the number of candidates.
C25_OneRequestPerCandidate ==
    /\ nDiscovery <= 1
    /\ nConfirm = Len(results)
    /\ Len(results) \in {0, Len(cands)}
    /\ nDiscovery + nConfirm <= 1 + Len(cands)

\* C25 witness: a skeleton scan with two candidates has answered after its
\* first confirmation request was rejected: three requests in all
C25_Witness ==
    /\ Replied
    /\ Len(cands) = 2
    /\ Len(replies) = 2
    /\ replies[1] = Rejected
    /\ nDiscovery = 1
    /\ nConfirm = 2

\* C28: the handler never calls sendResponse more often than scanForAds
\* requests have arrived: a scan in flight has not answered yet, and a scan
\* that has ended, on whichever path, has answered once.
C28_OneResponsePerScan ==
    /\ nResponses <= scanNo
    /\ pc \notin {"idle", "done"} => nResponses = scanNo - 1
    /\ pc = "done" => nResponses = scanNo

\* C28 witness: the fan-in threw after the confirmation requests had
\* settled, and the catch block's sendResponse is the scan's only one
C28_Witness ==
    /\ pc = "done"
    /\ thrown.raised
    /\ nConfirm > 0
    /\ reply.status = "error"
    /\ nResponses = 1

\* C29: a scan that has ended has answered the caller with a success or an
\* error reply, and every started scan eventually ends that way, given that
\* every awaited external call eventually resolves or rejects.
C29_ScanEventuallyReplies ==
    /\ [](pc = "done" => reply.status \in {"success", "error"})
    /\ (scanNo > 0 /\ pc # "done") ~> (pc = "done" /\ nResponses = scanNo)

\* C29 witness: a skeleton scan went through discovery, two confirmation
\* requests and the render, and answered with a success reply
C29_Witness ==
    /\ Replied
    /\ strategy = "skeleton"
    /\ nDiscovery = 1
    /\ nConfirm = 2
    /\ lastRender.scan = scanNo
    /\ reply.status = "success"
    /\ nResponses = scanNo

\* The last thing that happened in the tab is a clearOverlays message handled
\* by the page, after the latest scan had started
ClearHandledSinceScanStart == scanNo > 0 /\ event.kind = "clearOverlays"

\* C26: the overlays on the page always stem from one createOverlays
\* message; and when a clearOverlays message was handled after a scan had
\* started and that scan has ended, the page has no overlay or exactly the
\* overlays that scan's createOverlays message rendered.
C26_ClearDuringScanLeavesOneRender ==
    /\ \A i \in 1..Len(overlays) : overlays[i].render = renderSeq
    /\ (ClearHandledSinceScanStart /\ pc = "done")
          => \/ overlays = <<>>
             \/ /\ lastRender.scan = scanNo
                /\ Len(overlays) = lastRender.count

\* C26 witness: while the second scan was in flight a clearOverlays message
\* removed the first scan's overlays, and then the second scan rendered its
\* own
C26_Witness ==
    /\ pc = "done"
    /\ scanNo = 2
    /\ event.kind = "clearOverlays"
    /\ event.arg > 0
    /\ lastRender.scan = 2
    /\ Len(overlays) > 0

\* C30: on a page with more than one registered listener, handling one
\* createOverlays message leaves one overlay per resolvable ad of the
\* message, and the orchestrator replies with that number.
C30_OneOverlayPerAdWhateverListeners ==
    [][(Rendered /\ listeners >= 2)
          => LET n == Cardinality({j \in 1..Len(MsgAds) :
                                     Resolvable(MsgAds[j], j, overlays')})
             IN /\ Len(overlays') = n
                /\ ~createOverlaysThrows(msg) => reply' = Success(n)]_vars

\* C30 witness: the second scan of a page, which by then has two listeners,
\* rendered a message with two resolvable ads: two overlays, count 2
C30_Witness ==
    /\ Replied
    /\ listeners = 2
    /\ lastRender.scan = scanNo
    /\ Len(MsgAds) = 2
    /\ Len(overlays) = 2
    /\ reply = Success(2)

\* Two scans overlapped and both have ended
BothScansEnded == suspended # <<>> /\ pc = "done" /\ suspended[1].pc = "done"

\* C27: with two overlapping scans the overlays on the page always stem
\* from one createOverlays message, the one handled last, and hold no ad
\* twice; once both scans have ended and one of them has rendered, they are
\* exactly the overlays rendered for that scan.
C27_OverlappingScansLeaveOneRender ==
    /\ \A i \in 1..Len(overlays) : overlays[i].render = renderSeq
    /\ \A i, j \in 1..Len(overlays) : overlays[i].ad = overlays[j].ad => i = j
    /\ (BothScansEnded /\ renderSeq > 0)
          => /\ lastRender.scan \in {1, 2}
             /\ Len(overlays) = lastRender.count

\* C27 witness: both scans rendered, the first scan's createOverlays
\* message was handled after the second scan's, and its overlays are the
\* ones on the page
C27_Witness ==
    /\ BothScansEnded
    /\ renderSeq = 2
    /\ lastRender.scan = 1
    /\ Len(overlays) > 0

\* Body's n-th child is one of the extension's overlays, which come after the
\* document's own elements
IsOverlayElement(n) == n > Len(doc)

\* C31: in the heuristic strategy no candidate of a scan is one of the
\* extension's own overlays, and no overlay covers an overlay.
C31_NoOverlayAmongCandidates ==
    strategy = "heuristic" =>
        /\ \A i \in 1..Len(cands) : ~IsOverlayElement(cands[i].html)
        /\ \A i \in 1..Len(overlays) : ~IsOverlayElement(overlays[i].target)

\* A discovery request was handled by the page in this step
DiscoveryHandled ==
    event'.kind \in {"getSkeletonHtml", "getAdSnippets", "findAdCandidates"}

\* C32: a step in which the page handles getSkeletonHtml, getAdSnippets or
\* findAdCandidates leaves the live document and the rendered overlays as
\* they were.
C32_DiscoveryLeavesPageUnchanged ==
    [][DiscoveryHandled => UNCHANGED <<doc, overlays>>]_vars

\* A skeleton that differs from the document was returned while an overlay
\* is displayed
C32_Witness ==
    /\ event.kind = "getSkeletonHtml"
    /\ event.arg # bodyChildren(doc, overlays)
    /\ overlays # <<>>

\* The elements of a tree: the top-level ones and their children
AllElements(tree) ==
    {tree[i] : i \in 1..Len(tree)}
      \cup UNION {{tree[i].kids[j] : j \in 1..Len(tree[i].kids)} : i \in 1..Len(tree)}

\* A link element whose rel attribute is "stylesheet"
StylesheetLink(e) == e.tag = "link" /\ e.rel = <<"stylesheet">>

\* Elements the skeleton is said not to contain, by tag and parent's tag
Excluded(e, parentTag) ==
    \/ e.tag \in {"script", "style"}
    \/ StylesheetLink(e)
    \/ e.tag = "source" /\ parentTag = "video"

Survivors(tree, parentTag) == SelectSeq(tree, LAMBDA e : ~Excluded(e, parentTag))

\* s is o with its tag name and every attribute but the stripped ones
KeepsTagAndOtherAttributes(o, s) ==
    /\ s.tag = o.tag
    /\ s.rel = o.rel
    /\ s.attrs \subseteq o.attrs
    /\ o.attrs \ s.attrs \subseteq
          (IF o.tag = "img" THEN {"src", "srcset"} ELSE IF o.tag = "video" THEN {"src"} ELSE {})

\* Every element of body that is not excluded is in the skeleton, under the
\* same parent and in the same order among the elements that remain
KeepsOtherElements(body, skeleton) ==
    LET top == Survivors(body, "body")
    IN /\ Len(skeleton) = Len(top)
       /\ \A i \in 1..Len(top) :
            LET kids == Survivors(top[i].kids, top[i].tag)
            IN /\ KeepsTagAndOtherAttributes(top[i], skeleton[i])
               /\ Len(skeleton[i].kids) = Len(kids)
               /\ \A j \in 1..Len(kids) :
                    KeepsTagAndOtherAttributes(kids[j], skeleton[i].kids[j])

C34_SelectorReturnedThenDropped ==
    /\ event.kind = "getUniqueSelector" => ~event.arg
    /\ (event.kind = "getAdSnippets" /\ (found.throws \/ found.matches = <<>>))
          => event.arg = <<>>

\* What does hold: an element whose id is a string, with or without a parent,
\* and body itself get a selector, and an unresolved selector is dropped
C34_DetachedAndBodyGetSelector ==
    /\ (event.kind = "getUniqueSelector" /\ ~target.id.control) => ~event.arg
    /\ (event.kind = "getAdSnippets" /\ (found.throws \/ found.matches = <<>>))
          => event.arg = <<>>

SelectorsOf(cs) == {cs[k].selector : k \in 1..Len(cs)}

InFlight == popup.querying + popup.awaiting

\* C36: the scan button is disabled exactly while a click handler of the
\* popup is in flight, at most one is in flight, and a disabled button is
\* enabled again later.
C36_ButtonDisabledWhileScanning ==
    /\ [](popup.disabled <=> InFlight > 0)
    /\ [](InFlight <= 1)
    /\ (popup.disabled ~> ~popup.disabled)

\* After a second click the button is enabled again, with an error shown
C36_Witness ==
    /\ popup.clicks = 2
    /\ ~popup.disabled
    /\ popup.status.text \in {"Error: ", "An unexpected error occurred."}

OnlyWhitespace(s) == \A k \in 1..Len(s) : s[k] \in Whitespace

\* t is s without the whitespace at its two ends
IsTrimOf(t, s) ==
    /\ t # <<>>
    /\ t[1] \notin Whitespace
    /\ t[Len(t)] \notin Whitespace
    /\ \E i \in 0..Len(s) :
          /\ i + Len(t) <= Len(s)
          /\ SubSeq(s, i + 1, i + Len(t)) = t
          /\ OnlyWhitespace(SubSeq(s, 1, i))
          /\ OnlyWhitespace(SubSeq(s, i + Len(t) + 1, Len(s)))

\* C37: a save with an empty or all-whitespace input leaves the stored key
\* as it was and shows the error status; a save with any other input stores
\* the input without the whitespace at its ends; a restore shows the stored
\* key in the input.
C37_SaveTrimsAndRestoreShows ==
    [][/\ event'.kind = "saveOptions" =>
            IF OnlyWhitespace(options.input)
            THEN /\ options'.stored = options.stored
                 /\ apiKey' = apiKey
                 /\ options'.status = "Please enter a valid API key."
            ELSE /\ IsTrimOf(options'.stored, options.input)
                 /\ apiKey' # ""
       /\ (event'.kind = "restoreOptions" /\ options.stored # <<>>) =>
            options'.input = options.stored]_vars

\* A key typed with whitespace before it was saved and the page opened again
C37_Witness ==
    /\ event.kind = "restoreOptions"
    /\ options.input = <<"k", " ", "k">>
    /\ apiKey = "key"

====
